---- MODULE Spec2Model ----
(***************************************************************************)
(* Sparse matrix layer of code_saturne (src/alge/cs_matrix.c): structure   *)
(* builders, coefficient binding and matrix.vector product kernels for the *)
(* native, CSR, symmetric CSR, MSR and symmetric MSR representations.      *)
(*                                                                         *)
(* C arrays are functions over 0..n-1, as the source indexes them.         *)
(* Coefficients and vectors are integers.                                  *)
(***************************************************************************)
EXTENDS Integers, Sequences, FiniteSets, TLC

(* ------------------------------ bounds --------------------------------- *)

\* largest n_cells_ext (owned + ghost cells) of an enumerated mesh
MaxCellsExt == 3
\* largest number of faces of an enumerated mesh
MaxFaces == 3
\* reduced loop length, so that chunked kernels cross chunk limits
SmallLoopLength == 2

\* largest number of faces of the meshes on which coefficients are assigned
MaxBindFaces == 2
\* largest n_cells_ext of the meshes used with blocks and repeated assignments
MaxSmallCellsExt == 2
\* largest n_faces of the meshes used with repeated assignments
MaxRebindFaces == 1
\* largest number of coefficient assignments made on one matrix
MaxBinds == 2

(* ----------------------------- constants ------------------------------- *)

\* loop length set by cs_matrix_create and by the tuning variants
DefaultLoopLength == 508
\* threshold under which _sort_local uses a shell sort
ShellSortLimit == 20

(* --------------------------- array helpers ----------------------------- *)

Arr(n, v) == [k \in 0..(n-1) |-> v]

Size(a) == Cardinality(DOMAIN a)

Max2(a, b) == IF a > b THEN a ELSE b

\* values an uninitialized (malloc'ed, never written) location may hold
UninitVals == {0, 50}

(* ------------------------------ types ---------------------------------- *)

CS_MATRIX_NATIVE == "native"
CS_MATRIX_CSR == "CSR"
CS_MATRIX_CSR_SYM == "symmetric CSR"
CS_MATRIX_MSR == "MSR"
CS_MATRIX_MSR_SYM == "symmetric MSR"

cs_matrix_type_name == {CS_MATRIX_NATIVE, CS_MATRIX_CSR, CS_MATRIX_CSR_SYM,
                        CS_MATRIX_MSR, CS_MATRIX_MSR_SYM}

CompressedTypes == cs_matrix_type_name \ {CS_MATRIX_NATIVE}

SymTypes == {CS_MATRIX_CSR_SYM, CS_MATRIX_MSR_SYM}

(* ------------------------------ sorting -------------------------------- *)

RECURSIVE sort_descend_loop(_, _, _, _)
sort_descend_loop(number, level, n_elts, num_save) ==
  IF level <= n_elts \div 2
  THEN LET lv0 == 2*level + 1
           lv_cur == IF lv0 < n_elts - 1 /\ number[lv0+1] > number[lv0]
                     THEN lv0 + 1 ELSE lv0
       IN IF lv_cur >= n_elts THEN [number EXCEPT ![level] = num_save]
          ELSE IF num_save >= number[lv_cur]
               THEN [number EXCEPT ![level] = num_save]
               ELSE sort_descend_loop([number EXCEPT ![level] = number[lv_cur]],
                                      lv_cur, n_elts, num_save)
  ELSE [number EXCEPT ![level] = num_save]

sort_descend_tree(number, level, n_elts) ==
  sort_descend_loop(number, level, n_elts, number[level])

RECURSIVE shell_increment(_, _)
shell_increment(inc, n_elts) ==
  IF inc <= n_elts \div 9 THEN shell_increment(3*inc + 1, n_elts) ELSE inc

RECURSIVE shell_insert(_, _, _, _)
shell_insert(number, j, inc, num_save) ==
  IF j >= inc /\ number[j-inc] > num_save
  THEN shell_insert([number EXCEPT ![j] = number[j-inc]], j - inc, inc, num_save)
  ELSE [number EXCEPT ![j] = num_save]

RECURSIVE shell_pass(_, _, _, _)
shell_pass(number, i, inc, n_elts) ==
  IF i < n_elts
  THEN shell_pass(shell_insert(number, i, inc, number[i]), i + 1, inc, n_elts)
  ELSE number

RECURSIVE shell_sort(_, _, _)
shell_sort(number, inc, n_elts) ==
  IF inc > 0
  THEN shell_sort(shell_pass(number, inc, inc, n_elts), inc \div 3, n_elts)
  ELSE number

RECURSIVE heap_build(_, _, _)
heap_build(number, i, n_elts) ==
  LET i1 == i - 1
      t == sort_descend_tree(number, i1, n_elts)
  IN IF i1 > 0 THEN heap_build(t, i1, n_elts) ELSE t

RECURSIVE heap_extract(_, _)
heap_extract(number, i) ==
  IF i > 0
  THEN LET sw == [number EXCEPT ![0] = number[i], ![i] = number[0]]
       IN heap_extract(sort_descend_tree(sw, 0, i), i - 1)
  ELSE number

sort_local(number, n_elts) ==
  IF n_elts < 2 THEN number
  ELSE IF n_elts < ShellSortLimit
       THEN shell_sort(number, shell_increment(1, n_elts), n_elts)
       ELSE heap_extract(heap_build(number, n_elts \div 2, n_elts), n_elts - 1)

(* ---------------------------- structures ------------------------------ *)

\* cell ids (0-based) joined by a face; face_cell holds 1-based numbers
face_ii(face_cell, face_id) == face_cell[2*face_id] - 1

face_jj(face_cell, face_id) == face_cell[2*face_id + 1] - 1

create_struct_native(n_cells, n_cells_ext, n_faces, face_cell) ==
  [type |-> CS_MATRIX_NATIVE, n_cells |-> n_cells, n_cells_ext |-> n_cells_ext,
   n_faces |-> n_faces, face_cell |-> face_cell]

\* count pass of _create_struct_csr: both ends of every face
RECURSIVE csr_count(_, _, _, _)
csr_count(face_id, n_faces, face_cell, ccount) ==
  IF face_id < n_faces
  THEN LET ii == face_ii(face_cell, face_id)
           jj == face_jj(face_cell, face_id)
           c1 == [ccount EXCEPT ![ii] = @ + 1]
       IN csr_count(face_id + 1, n_faces, face_cell, [c1 EXCEPT ![jj] = @ + 1])
  ELSE ccount

\* a count pass that counts both ends of a face, as the general one does
csr_sym_count_both_ends(face_id, n_faces, face_cell, ccount) ==
  csr_count(face_id, n_faces, face_cell, ccount)

\* count pass of _create_struct_csr_sym: the end of smaller index only
RECURSIVE csr_sym_count(_, _, _, _)
csr_sym_count(face_id, n_faces, face_cell, ccount) ==
  IF face_id < n_faces
  THEN LET ii == face_ii(face_cell, face_id)
           jj == face_jj(face_cell, face_id)
       IN csr_sym_count(face_id + 1, n_faces, face_cell,
                        IF ii < jj THEN [ccount EXCEPT ![ii] = @ + 1]
                                   ELSE [ccount EXCEPT ![jj] = @ + 1])
  ELSE ccount

\* row_index[ii+1] = row_index[ii] + ccount[ii]
RECURSIVE csr_row_index(_, _, _, _)
csr_row_index(ii, n_rows, ccount, row_index) ==
  IF ii < n_rows
  THEN csr_row_index(ii + 1, n_rows, ccount,
                     [row_index EXCEPT ![ii+1] = row_index[ii] + ccount[ii]])
  ELSE row_index

RECURSIVE csr_n_cols_max(_, _, _, _)
csr_n_cols_max(ii, n_rows, ccount, n_cols_max) ==
  IF ii < n_rows
  THEN csr_n_cols_max(ii + 1, n_rows, ccount, Max2(ccount[ii], n_cols_max))
  ELSE n_cols_max

\* diagonal terms, placed first in each row
csr_diag_cols(have_diag, n_rows, row_index, col_id) ==
  IF have_diag
  THEN [k \in DOMAIN col_id |->
          IF \E ii \in 0..(n_rows-1) : row_index[ii] = k /\ row_index[ii+1] > k
          THEN CHOOSE ii \in 0..(n_rows-1) : row_index[ii] = k /\ row_index[ii+1] > k
          ELSE col_id[k]]
  ELSE col_id

\* fill pass of _create_struct_csr; st = [col_id, ccount]
RECURSIVE csr_fill(_, _, _, _, _, _)
csr_fill(face_id, n_faces, face_cell, n_rows, row_index, st) ==
  IF face_id < n_faces
  THEN LET ii == face_ii(face_cell, face_id)
           jj == face_jj(face_cell, face_id)
           s1 == IF ii < n_rows
                 THEN [col_id |-> [st.col_id EXCEPT ![row_index[ii] + st.ccount[ii]] = jj],
                       ccount |-> [st.ccount EXCEPT ![ii] = @ + 1]]
                 ELSE st
           s2 == IF jj < n_rows
                 THEN [col_id |-> [s1.col_id EXCEPT ![row_index[jj] + s1.ccount[jj]] = ii],
                       ccount |-> [s1.ccount EXCEPT ![jj] = @ + 1]]
                 ELSE s1
       IN csr_fill(face_id + 1, n_faces, face_cell, n_rows, row_index, s2)
  ELSE st

\* fill pass of _create_struct_csr_sym
RECURSIVE csr_sym_fill(_, _, _, _, _, _)
csr_sym_fill(face_id, n_faces, face_cell, n_rows, row_index, st) ==
  IF face_id < n_faces
  THEN LET ii == face_ii(face_cell, face_id)
           jj == face_jj(face_cell, face_id)
           s1 == IF ii < jj /\ ii < n_rows
                 THEN [col_id |-> [st.col_id EXCEPT ![row_index[ii] + st.ccount[ii]] = jj],
                       ccount |-> [st.ccount EXCEPT ![ii] = @ + 1]]
                 ELSE IF ii > jj /\ jj < n_rows
                      THEN [col_id |-> [st.col_id EXCEPT ![row_index[jj] + st.ccount[jj]] = ii],
                            ccount |-> [st.ccount EXCEPT ![jj] = @ + 1]]
                      ELSE st
       IN csr_sym_fill(face_id + 1, n_faces, face_cell, n_rows, row_index, s1)
  ELSE st

\* the column ids of one row, as an array of its own
row_cols(col_id, row_index, ii) ==
  [k \in 0..(row_index[ii+1] - row_index[ii] - 1) |-> col_id[row_index[ii] + k]]

\* sort the rows and detect repeated column ids; st = [col_id, direct_assembly]
RECURSIVE csr_sort_rows(_, _, _, _)
csr_sort_rows(ii, n_rows, row_index, st) ==
  IF ii < n_rows
  THEN LET n_cols == row_index[ii+1] - row_index[ii]
           sorted == sort_local(row_cols(st.col_id, row_index, ii), n_cols)
           repeated == \E jj \in 1..(n_cols-1) : sorted[jj] = sorted[jj-1]
       IN csr_sort_rows(ii + 1, n_rows, row_index,
            [col_id |-> [k \in DOMAIN st.col_id |->
                           IF k >= row_index[ii] /\ k < row_index[ii+1]
                           THEN sorted[k - row_index[ii]] ELSE st.col_id[k]],
             direct_assembly |-> IF repeated THEN FALSE ELSE st.direct_assembly])
  ELSE st

\* one row of the compaction: keep a column id when it differs from the
\* previous one; out is the sequence of kept ids
RECURSIVE csr_compact_row(_, _, _, _, _)
csr_compact_row(cols, jj, n_cols, col_id_prev, out) ==
  IF jj < n_cols
  THEN IF col_id_prev # cols[jj]
       THEN csr_compact_row(cols, jj + 1, n_cols, cols[jj], Append(out, cols[jj]))
       ELSE csr_compact_row(cols, jj + 1, n_cols, col_id_prev, out)
  ELSE out

\* st = [row_index, out]; the old row_index is read before it is rewritten
RECURSIVE csr_compact(_, _, _, _, _)
csr_compact(ii, n_rows, old_index, col_id, st) ==
  IF ii < n_rows
  THEN LET n_cols == old_index[ii+1] - old_index[ii]
           out == csr_compact_row(row_cols(col_id, old_index, ii), 0, n_cols, -1, st.out)
       IN csr_compact(ii + 1, n_rows, old_index, col_id,
                      [row_index |-> [st.row_index EXCEPT ![ii] = Len(st.out)],
                       out |-> out])
  ELSE [row_index |-> [st.row_index EXCEPT ![n_rows] = Len(st.out)], out |-> st.out]

create_struct_csr(have_diag, n_cells, n_cells_ext, n_faces, face_cell) ==
  LET n_rows == n_cells
      diag_elts == IF have_diag THEN 1 ELSE 0
      ccount == csr_count(0, n_faces, face_cell,
                          [k \in 0..(n_cells_ext-1) |-> IF k < n_rows THEN diag_elts ELSE 0])
      row_index == csr_row_index(0, n_rows, ccount, Arr(n_rows + 1, 0))
      n_cols_max == csr_n_cols_max(0, n_rows, ccount, 0)
      filled == csr_fill(0, n_faces, face_cell, n_rows, row_index,
                         [col_id |-> csr_diag_cols(have_diag, n_rows, row_index,
                                                   Arr(row_index[n_rows], -1)),
                          ccount |-> Arr(n_cells_ext, diag_elts)])
      sorted == IF n_cols_max > 1
                THEN csr_sort_rows(0, n_rows, row_index,
                                   [col_id |-> filled.col_id, direct_assembly |-> TRUE])
                ELSE [col_id |-> filled.col_id, direct_assembly |-> TRUE]
      compact == csr_compact(0, n_rows, row_index, sorted.col_id,
                             [row_index |-> row_index, out |-> <<>>])
  IN IF sorted.direct_assembly
     THEN [n_rows |-> n_rows, n_cols |-> n_cells_ext, n_cols_max |-> n_cols_max,
           have_diag |-> have_diag, direct_assembly |-> TRUE,
           row_index |-> row_index, col_id |-> sorted.col_id]
     ELSE [n_rows |-> n_rows, n_cols |-> n_cells_ext, n_cols_max |-> n_cols_max,
           have_diag |-> have_diag, direct_assembly |-> FALSE,
           row_index |-> compact.row_index,
           col_id |-> [k \in 0..(Len(compact.out)-1) |-> compact.out[k+1]]]

\* no sort and no detection of repeated column ids: direct_assembly stays
\* true, so the compaction of the source is never entered
create_struct_csr_sym(have_diag, n_cells, n_cells_ext, n_faces, face_cell) ==
  LET n_rows == n_cells
      diag_elts == IF have_diag THEN 1 ELSE 0
      ccount == csr_sym_count(0, n_faces, face_cell,
                              [k \in 0..(n_cells_ext-1) |-> IF k < n_rows THEN diag_elts ELSE 0])
      row_index == csr_row_index(0, n_rows, ccount, Arr(n_rows + 1, 0))
      n_cols_max == csr_n_cols_max(0, n_rows, ccount, 0)
      filled == csr_sym_fill(0, n_faces, face_cell, n_rows, row_index,
                             [col_id |-> csr_diag_cols(have_diag, n_rows, row_index,
                                                       Arr(row_index[n_rows], -1)),
                              ccount |-> Arr(n_cells_ext, diag_elts)])
  IN [n_rows |-> n_rows, n_cols |-> n_cells_ext, n_cols_max |-> n_cols_max,
      have_diag |-> have_diag, direct_assembly |-> TRUE,
      row_index |-> row_index, col_id |-> filled.col_id]

cs_matrix_structure_create(type, have_diag, n_cells, n_cells_ext, n_faces, face_cell) ==
  [type |-> type, n_cells |-> n_cells, n_cells_ext |-> n_cells_ext,
   n_faces |-> n_faces, face_cell |-> face_cell,
   structure |->
     CASE type = CS_MATRIX_NATIVE ->
            create_struct_native(n_cells, n_cells_ext, n_faces, face_cell)
       [] type = CS_MATRIX_CSR ->
            create_struct_csr(have_diag, n_cells, n_cells_ext, n_faces, face_cell)
       [] type = CS_MATRIX_CSR_SYM ->
            create_struct_csr_sym(have_diag, n_cells, n_cells_ext, n_faces, face_cell)
       [] type = CS_MATRIX_MSR ->
            create_struct_csr(FALSE, n_cells, n_cells_ext, n_faces, face_cell)
       [] type = CS_MATRIX_MSR_SYM ->
            create_struct_csr_sym(FALSE, n_cells, n_cells_ext, n_faces, face_cell)]

(* --------------------------- dense helpers ----------------------------- *)

NullPtr == "NULL"

\* the null value of a pointer to an array: no array has the index -1
NullArray == [k \in {-1} |-> 0]

\* the null value of a pointer to a variant
NoVariant == [type |-> "none"]

\* a pointer held by the coefficients: NullPtr, "caller" (the array passed by
\* the caller, shared) or "private" (an array owned by the matrix)
deref(ptr, own, shared) == IF ptr = "private" THEN own ELSE shared

\* y[ii] = 0 for start_id <= ii < end_id
zero_range(y_, start_id, end_id) ==
  [k \in DOMAIN y_ |-> IF k >= start_id /\ k < end_id THEN 0 ELSE y_[k]]

b_zero_range(y_, start_id, end_id, b_size) ==
  zero_range(y_, start_id*b_size[1], end_id*b_size[1])

\* y[ii] = da[ii]*x[ii] for ii < n_elts (zero when da is NULL)
diag_vec_p_l(da_, x_, y_, n_elts) ==
  [k \in DOMAIN y_ |->
     IF k < n_elts THEN (IF da_ = NullArray THEN 0 ELSE da_[k] * x_[k]) ELSE y_[k]]

RECURSIVE dense_b_row(_, _, _, _, _, _, _)
dense_b_row(b_id, b_size, a, x_, ii, jj, acc) ==
  IF jj < b_size[0]
  THEN dense_b_row(b_id, b_size, a, x_, ii, jj + 1,
                   acc + a[b_id*b_size[3] + ii*b_size[2] + jj] * x_[b_id*b_size[1] + jj])
  ELSE acc

\* the block of y of index b_id, as the dense product of block b_id of a
dense_b_ax(b_id, b_size, a, x_, y_) ==
  [k \in DOMAIN y_ |->
     IF k >= b_id*b_size[1] /\ k < b_id*b_size[1] + b_size[0]
     THEN dense_b_row(b_id, b_size, a, x_, k - b_id*b_size[1], 0, 0)
     ELSE y_[k]]

RECURSIVE b_diag_loop(_, _, _, _, _, _)
b_diag_loop(ii, n_elts, b_size, da_, x_, y_) ==
  IF ii < n_elts
  THEN b_diag_loop(ii + 1, n_elts, b_size, da_, x_, dense_b_ax(ii, b_size, da_, x_, y_))
  ELSE y_

b_diag_vec_p_l_zero(da_, x_, y_, n_elts, b_size) ==
  zero_range(y_, 0, n_elts*b_size[1])

b_diag_vec_p_l(da_, x_, y_, n_elts, b_size) ==
  IF da_ # NullArray THEN b_diag_loop(0, n_elts, b_size, da_, x_, y_)
  ELSE zero_range(y_, 0, n_elts*b_size[1])

(* ------------------------- native coefficients ------------------------- *)

create_coeff_native ==
  [symmetric |-> FALSE, max_block_size |-> 0,
   da |-> NullPtr, xa |-> NullPtr,
   own_da |-> NullArray, own_xa |-> NullArray, own_xa_size |-> 0]

\* the memory at the address of a buffer allocated for `size` elements, seen
\* over the n elements a kernel may read, after n_vals elements were written
\* to it: an element written past the allocation is lost (u) or happens to
\* survive (keep); an element not written holds what it held (old)
written(vals, n_vals, size, n, old, u, keep) ==
  [k \in 0..(n - 1) |->
     IF k < n_vals THEN (IF k < size \/ keep THEN vals[k] ELSE u) ELSE old[k]]

\* s: the structure; da_arg, xa_arg: NullPtr or "caller"; cda, cxa: contents
\* of the caller's arrays; u: the value of the memory that was never written;
\* keep: fate of the writes past the end of _xa
set_coeffs_native(mm, s, symmetric, interleaved, copy, da_arg, xa_arg, cda, cxa, u, keep) ==
  LET mc == mm.coeffs
      n_da == mm.b_size[3] * s.n_cells
      c1 == [mc EXCEPT !.symmetric = symmetric]
      c2 == IF da_arg # NullPtr
            THEN IF copy
                 THEN [c1 EXCEPT !.own_da = [k \in 0..(n_da - 1) |-> cda[k]],
                                 !.max_block_size =
                                    IF mc.own_da = NullArray \/ mc.max_block_size < mm.b_size[3]
                                    THEN mm.b_size[3] ELSE @,
                                 !.da = "private"]
                 ELSE [c1 EXCEPT !.da = "caller"]
            ELSE [c1 EXCEPT !.da = NullPtr]
      xa_n_vals == IF symmetric THEN s.n_faces ELSE 2 * s.n_faces
      size1 == IF mc.own_xa = NullArray THEN xa_n_vals ELSE mc.own_xa_size
      size2 == IF mc.own_xa = NullArray THEN 2 * s.n_faces ELSE mc.own_xa_size
      old == IF mc.own_xa = NullArray THEN Arr(2 * s.n_faces, u) ELSE mc.own_xa
      c3 == IF xa_arg # NullPtr
            THEN IF interleaved \/ symmetric
                 THEN IF copy
                      THEN [c2 EXCEPT !.own_xa_size = size1,
                                      !.own_xa = written(cxa, xa_n_vals, size1,
                                                         2 * s.n_faces, old, u, keep),
                                      !.xa = "private"]
                      ELSE [c2 EXCEPT !.xa = "caller"]
                 ELSE [c2 EXCEPT !.own_xa_size = size2,
                                 !.own_xa = written([k \in 0..(2*s.n_faces - 1) |->
                                                       IF k % 2 = 0 THEN cxa[k \div 2]
                                                       ELSE cxa[s.n_faces + (k \div 2)]],
                                                    2 * s.n_faces, size2,
                                                    2 * s.n_faces, old, u, keep),
                                 !.xa = "private"]
            ELSE c2
  IN [mm EXCEPT !.coeffs = c3]

\* a release that resets nothing
release_nothing(mm) == mm

release_coeffs_native(mm) ==
  [mm EXCEPT !.coeffs.da = NullPtr, !.coeffs.xa = NullPtr]

(* --------------------------- native kernels ---------------------------- *)

RECURSIVE native_faces(_, _, _, _, _, _)
native_faces(face_id, s, symmetric, xa_, x_, y_) ==
  IF face_id < s.n_faces
  THEN LET ii == face_ii(s.face_cell, face_id)
           jj == face_jj(s.face_cell, face_id)
           y1 == [y_ EXCEPT ![ii] = @ + (IF symmetric THEN xa_[face_id]
                                          ELSE xa_[2*face_id]) * x_[jj]]
           y2 == [y1 EXCEPT ![jj] = @ + (IF symmetric THEN xa_[face_id]
                                          ELSE xa_[2*face_id + 1]) * x_[ii]]
       IN native_faces(face_id + 1, s, symmetric, xa_, x_, y2)
  ELSE y_

mat_vec_p_l_native(exclude_diag, s, mm, cda, cxa, x_, y_) ==
  LET mc == mm.coeffs
      st == s.structure
      da_ == IF mc.da = NullPtr THEN NullArray ELSE deref(mc.da, mc.own_da, cda)
      y0 == IF ~exclude_diag
            THEN zero_range(diag_vec_p_l(da_, x_, y_, st.n_cells), st.n_cells, st.n_cells_ext)
            ELSE zero_range(y_, 0, st.n_cells_ext)
  IN IF mc.xa # NullPtr
     THEN native_faces(0, st, mc.symmetric, deref(mc.xa, mc.own_xa, cxa), x_, y0)
     ELSE y0

\* chunk of faces [face_id, face_id + kk_max): first sub-loop of the Bull
\* algorithm, y[ii] += xa * x[jj] with the running value of y[ii] kept in
\* y_it_prev; st = [y, ii_prev, y_it_prev]
RECURSIVE bull_sub_loop_1(_, _, _, _, _, _, _, _)
bull_sub_loop_1(kk, kk_max, face_id, s, symmetric, xa_, x_, st) ==
  IF kk < kk_max
  THEN LET ii == face_ii(s.face_cell, face_id + kk)
           jj == face_jj(s.face_cell, face_id + kk)
           a == IF symmetric THEN xa_[face_id + kk] ELSE xa_[2*(face_id + kk)]
           y_it == IF ii = st.ii_prev THEN st.y_it_prev ELSE st.y[ii]
           y1 == IF ii = st.ii_prev THEN st.y
                 ELSE [st.y EXCEPT ![st.ii_prev] = st.y_it_prev]
       IN bull_sub_loop_1(kk + 1, kk_max, face_id, s, symmetric, xa_, x_,
                          [y |-> y1, ii_prev |-> ii, y_it_prev |-> y_it + a * x_[jj]])
  ELSE [st.y EXCEPT ![st.ii_prev] = st.y_it_prev]

\* second sub-loop: y[jj] += xa * x[ii]
RECURSIVE bull_sub_loop_2(_, _, _, _, _, _, _, _)
bull_sub_loop_2(kk, kk_max, face_id, s, symmetric, xa_, x_, y_) ==
  IF kk < kk_max
  THEN LET ii == face_ii(s.face_cell, face_id + kk)
           jj == face_jj(s.face_cell, face_id + kk)
           a == IF symmetric THEN xa_[face_id + kk] ELSE xa_[2*(face_id + kk) + 1]
       IN bull_sub_loop_2(kk + 1, kk_max, face_id, s, symmetric, xa_, x_,
                          [y_ EXCEPT ![jj] = @ + a * x_[ii]])
  ELSE y_

RECURSIVE bull_chunks(_, _, _, _, _, _, _)
bull_chunks(face_id, l1_cache_size, s, symmetric, xa_, x_, y_) ==
  IF face_id < s.n_faces
  THEN LET kk_max == IF s.n_faces - face_id < l1_cache_size
                     THEN s.n_faces - face_id ELSE l1_cache_size
           ii0 == face_ii(s.face_cell, face_id)
           a0 == IF symmetric THEN xa_[face_id] ELSE xa_[2*face_id]
           y1 == bull_sub_loop_1(1, kk_max, face_id, s, symmetric, xa_, x_,
                                 [y |-> y_, ii_prev |-> ii0,
                                  y_it_prev |-> y_[ii0] + a0 * x_[face_jj(s.face_cell, face_id)]])
           y2 == bull_sub_loop_2(0, kk_max, face_id, s, symmetric, xa_, x_, y1)
       IN bull_chunks(face_id + l1_cache_size, l1_cache_size, s, symmetric, xa_, x_, y2)
  ELSE y_

mat_vec_p_l_native_bull(exclude_diag, s, mm, cda, cxa, x_, y_) ==
  LET mc == mm.coeffs
      st == s.structure
      l1_cache_size == IF mm.loop_length > 0 THEN mm.loop_length ELSE DefaultLoopLength
      da_ == IF mc.da = NullPtr THEN NullArray ELSE deref(mc.da, mc.own_da, cda)
      y0 == IF ~exclude_diag THEN diag_vec_p_l(da_, x_, y_, st.n_cells)
            ELSE zero_range(y_, 0, st.n_cells_ext)
      y1 == zero_range(y0, st.n_cells, st.n_cells_ext)
  IN IF mc.xa # NullPtr
     THEN bull_chunks(0, l1_cache_size, st, mc.symmetric,
                      deref(mc.xa, mc.own_xa, cxa), x_, y1)
     ELSE y1

\* block version: the extra-diagonal terms are scalars applied to the
\* b_size[0] useful components of each block of x
RECURSIVE b_native_faces(_, _, _, _, _, _, _)
b_native_faces(face_id, s, b_size, symmetric, xa_, x_, y_) ==
  IF face_id < s.n_faces
  THEN LET ii == face_ii(s.face_cell, face_id)
           jj == face_jj(s.face_cell, face_id)
           up == IF symmetric THEN xa_[face_id] ELSE xa_[2*face_id]
           lo == IF symmetric THEN xa_[face_id] ELSE xa_[2*face_id + 1]
           y1 == [k \in DOMAIN y_ |->
                    IF k >= ii*b_size[1] /\ k < ii*b_size[1] + b_size[0]
                    THEN y_[k] + up * x_[jj*b_size[1] + (k - ii*b_size[1])]
                    ELSE IF k >= jj*b_size[1] /\ k < jj*b_size[1] + b_size[0]
                         THEN y_[k] + lo * x_[ii*b_size[1] + (k - jj*b_size[1])]
                         ELSE y_[k]]
       IN b_native_faces(face_id + 1, s, b_size, symmetric, xa_, x_, y1)
  ELSE y_

b_mat_vec_p_l_native(exclude_diag, s, mm, cda, cxa, x_, y_) ==
  LET mc == mm.coeffs
      st == s.structure
      da_ == IF mc.da = NullPtr THEN NullArray ELSE deref(mc.da, mc.own_da, cda)
      y0 == IF ~exclude_diag
            THEN b_zero_range(b_diag_vec_p_l(da_, x_, y_, st.n_cells, mm.b_size),
                              st.n_cells, st.n_cells_ext, mm.b_size)
            ELSE b_zero_range(y_, 0, st.n_cells_ext, mm.b_size)
  IN IF mc.xa # NullPtr
     THEN b_native_faces(0, st, mm.b_size, mc.symmetric,
                         deref(mc.xa, mc.own_xa, cxa), x_, y0)
     ELSE y0

(* --------------------------- CSR coefficients -------------------------- *)

create_coeff_csr ==
  [n_prefetch_rows |-> 0, val |-> NullArray, x_prefetch |-> 0]

\* first slot of column jj from position kk on
RECURSIVE csr_find(_, _, _)
csr_find(col_id, kk, jj) ==
  IF col_id[kk] # jj THEN csr_find(col_id, kk + 1, jj) ELSE kk

\* extra-diagonal value of face face_id towards jj (upper) and towards ii
xa_upper(symmetric, interleaved, n_faces, xa_, face_id) ==
  IF symmetric THEN xa_[face_id]
  ELSE IF interleaved THEN xa_[2*face_id] ELSE xa_[face_id]

\* a lower value read from the place of the upper one
xa_lower_from_upper(symmetric, interleaved, n_faces, xa_, face_id) ==
  xa_upper(symmetric, interleaved, n_faces, xa_, face_id)

xa_lower(symmetric, interleaved, n_faces, xa_, face_id) ==
  IF symmetric THEN xa_[face_id]
  ELSE IF interleaved THEN xa_[2*face_id + 1] ELSE xa_[n_faces + face_id]

\* loop on faces of _set_xa_coeffs_csr_direct (increment = FALSE, val = xa)
\* and of _set_xa_coeffs_csr_increment (increment = TRUE, val += xa)
RECURSIVE set_xa_coeffs_csr_faces(_, _, _, _, _, _, _, _)
set_xa_coeffs_csr_faces(face_id, s, st, symmetric, interleaved, xa_, increment, val) ==
  IF face_id < s.n_faces
  THEN LET ii == face_ii(s.face_cell, face_id)
           jj == face_jj(s.face_cell, face_id)
           up == xa_upper(symmetric, interleaved, s.n_faces, xa_, face_id)
           lo == xa_lower(symmetric, interleaved, s.n_faces, xa_, face_id)
           v1 == IF ii < st.n_rows
                 THEN LET kk == csr_find(st.col_id, st.row_index[ii], jj)
                      IN [val EXCEPT ![kk] = IF increment THEN @ + up ELSE up]
                 ELSE val
           v2 == IF jj < st.n_rows
                 THEN LET ll == csr_find(st.col_id, st.row_index[jj], ii)
                      IN [v1 EXCEPT ![ll] = IF increment THEN @ + lo ELSE lo]
                 ELSE v1
       IN set_xa_coeffs_csr_faces(face_id + 1, s, st, symmetric, interleaved, xa_,
                                  increment, v2)
  ELSE val

set_xa_coeffs_csr_direct(s, symmetric, interleaved, xa_, val) ==
  set_xa_coeffs_csr_faces(0, s, s.structure, symmetric, interleaved, xa_, FALSE, val)

set_xa_coeffs_csr_increment(s, symmetric, interleaved, xa_, val) ==
  set_xa_coeffs_csr_faces(0, s, s.structure, symmetric, interleaved, xa_, TRUE, val)

\* val[k] = 0 on every slot whose column is not its row
csr_zero_extra_diag(st, val) ==
  [k \in DOMAIN val |->
     IF \E ii \in 0..(st.n_rows - 1) :
          k >= st.row_index[ii] /\ k < st.row_index[ii+1] /\ st.col_id[k] # ii
     THEN 0 ELSE val[k]]

\* size of the prefetch buffer allocated for n_prefetch_rows rows
prefetch_size(s, n_prefetch_rows) ==
  Max2(s.structure.n_cols_max * n_prefetch_rows, s.n_cells + 2 * s.n_faces)

\* u: the value held by the locations of val that a malloc leaves unwritten
set_coeffs_csr(mm, s, symmetric, interleaved, copy, da_arg, xa_arg, cda, cxa, u) ==
  LET mc == mm.coeffs
      st == s.structure
      v0 == IF mc.val = NullArray THEN Arr(st.row_index[st.n_rows], u) ELSE mc.val
      v1 == IF ~st.direct_assembly THEN Arr(st.row_index[st.n_rows], 0) ELSE v0
      v2 == IF st.have_diag
            THEN [k \in DOMAIN v1 |->
                    IF \E ii \in 0..(st.n_rows - 1) :
                         k = csr_find(st.col_id, st.row_index[ii], ii)
                    THEN (IF da_arg # NullPtr THEN cda[st.col_id[k]] ELSE 0)
                    ELSE v1[k]]
            ELSE v1
      v3 == IF xa_arg # NullPtr
            THEN IF st.direct_assembly
                 THEN set_xa_coeffs_csr_direct(s, symmetric, interleaved, cxa, v2)
                 ELSE set_xa_coeffs_csr_increment(s, symmetric, interleaved, cxa, v2)
            ELSE csr_zero_extra_diag(st, v2)
  IN [mm EXCEPT !.coeffs.val = v3,
                !.coeffs.n_prefetch_rows = mm.loop_length,
                !.coeffs.x_prefetch =
                   IF mm.loop_length > 0 /\ mc.x_prefetch = 0
                   THEN prefetch_size(s, mm.loop_length) ELSE mc.x_prefetch]

release_coeffs_csr(mm) == mm

(* ----------------------------- CSR kernels ----------------------------- *)

\* sum of val[k]*x[col_id[k]] over the slots k of row ii from position jj on,
\* skipping the slots of column skip (-1: none)
RECURSIVE csr_row_sum(_, _, _, _, _, _, _)
csr_row_sum(st, val, x_, ii, jj, skip, sii) ==
  IF jj < st.row_index[ii+1] - st.row_index[ii]
  THEN LET k == st.row_index[ii] + jj
       IN csr_row_sum(st, val, x_, ii, jj + 1, skip,
                      IF st.col_id[k] # skip THEN sii + val[k] * x_[st.col_id[k]]
                      ELSE sii)
  ELSE sii

\* only the owned rows of y are written
mat_vec_p_l_csr(exclude_diag, s, mm, cda, cxa, x_, y_) ==
  LET st == s.structure
  IN [ii \in DOMAIN y_ |->
        IF ii < st.n_rows
        THEN csr_row_sum(st, mm.coeffs.val, x_, ii, 0,
                         IF exclude_diag THEN ii ELSE -1, 0)
        ELSE y_[ii]]

\* prefetch of rows [ii, end_row): the values of x of their columns, in order,
\* followed for each row by x[ii] when the diagonal is separate (with_diag)
RECURSIVE pf_gather(_, _, _, _, _, _)
pf_gather(st, x_, ii, end_row, with_diag, out) ==
  IF ii < end_row
  THEN LET cols == row_cols(st.col_id, st.row_index, ii)
           row == [k \in 1..Size(cols) |-> x_[cols[k-1]]]
       IN pf_gather(st, x_, ii + 1, end_row, with_diag,
                    IF with_diag THEN Append(out \o row, x_[ii]) ELSE out \o row)
  ELSE out

\* sum over the n_cols slots of a row of val * the prefetched value
RECURSIVE pf_row_sum(_, _, _, _, _, _, _)
pf_row_sum(val, m_row, pre, p, jj, n_cols, sii) ==
  IF jj < n_cols
  THEN pf_row_sum(val, m_row, pre, p, jj + 1, n_cols, sii + val[m_row + jj] * pre[p + jj])
  ELSE sii

\* compute pass; p is the position reached in the prefetch buffer (from 1)
RECURSIVE pf_compute(_, _, _, _, _, _, _, _, _)
pf_compute(st, val, d_val, pre, ii, end_row, p, with_diag, y_) ==
  IF ii < end_row
  THEN LET n_cols == st.row_index[ii+1] - st.row_index[ii]
           sii == pf_row_sum(val, st.row_index[ii], pre, p, 0, n_cols, 0)
       IN IF with_diag
          THEN pf_compute(st, val, d_val, pre, ii + 1, end_row, p + n_cols + 1, with_diag,
                          [y_ EXCEPT ![ii] = sii + d_val[ii] * pre[p + n_cols]])
          ELSE pf_compute(st, val, d_val, pre, ii + 1, end_row, p + n_cols, with_diag,
                          [y_ EXCEPT ![ii] = sii])
  ELSE y_

\* outer loop on prefetch lines
RECURSIVE pf_chunks(_, _, _, _, _, _, _, _)
pf_chunks(st, val, d_val, n_prefetch_rows, start_row, with_diag, x_, y_) ==
  IF start_row < st.n_rows
  THEN LET end_row == IF start_row + n_prefetch_rows > st.n_rows THEN st.n_rows
                      ELSE start_row + n_prefetch_rows
           pre == pf_gather(st, x_, start_row, end_row, with_diag, << >>)
       IN pf_chunks(st, val, d_val, n_prefetch_rows, start_row + n_prefetch_rows,
                    with_diag, x_,
                    pf_compute(st, val, d_val, pre, start_row, end_row, 1, with_diag, y_))
  ELSE y_

\* the prefetch variant refuses to exclude the diagonal (bft_error)
mat_vec_p_l_csr_pf_error(exclude_diag) == exclude_diag

mat_vec_p_l_csr_pf(exclude_diag, s, mm, cda, cxa, x_, y_) ==
  pf_chunks(s.structure, mm.coeffs.val, NullArray, mm.coeffs.n_prefetch_rows, 0, FALSE, x_, y_)

(* ---------------------- symmetric CSR coefficients --------------------- *)

create_coeff_csr_sym == [val |-> NullArray]

\* loop on faces of _set_xa_coeffs_csr_sym_direct / _increment; order is the
\* sequence of face ids as they are treated
RECURSIVE set_xa_coeffs_csr_sym_faces(_, _, _, _, _, _, _)
set_xa_coeffs_csr_sym_faces(n, order, s, st, xa_, increment, val) ==
  IF n <= Len(order)
  THEN LET face_id == order[n]
           ii == face_ii(s.face_cell, face_id)
           jj == face_jj(s.face_cell, face_id)
           v1 == IF ii < jj /\ ii < st.n_rows
                 THEN LET kk == csr_find(st.col_id, st.row_index[ii], jj)
                      IN [val EXCEPT ![kk] = IF increment THEN @ + xa_[face_id]
                                             ELSE xa_[face_id]]
                 ELSE IF ii > jj /\ jj < st.n_rows
                      THEN LET kk == csr_find(st.col_id, st.row_index[jj], ii)
                           IN [val EXCEPT ![kk] = IF increment THEN @ + xa_[face_id]
                                                  ELSE xa_[face_id]]
                      ELSE val
       IN set_xa_coeffs_csr_sym_faces(n + 1, order, s, st, xa_, increment, v1)
  ELSE val

\* faces in ascending order, or in descending order (rev)
face_order(n_faces, rev) ==
  [k \in 1..n_faces |-> IF rev THEN n_faces - k ELSE k - 1]

\* the loop is an OpenMP parallel for: faces writing the same slot may do so
\* in either order (rev)
set_xa_coeffs_csr_sym_direct(s, xa_, val, rev) ==
  set_xa_coeffs_csr_sym_faces(1, face_order(s.n_faces, rev), s, s.structure, xa_, FALSE, val)

set_xa_coeffs_csr_sym_increment(s, xa_, val) ==
  set_xa_coeffs_csr_sym_faces(1, face_order(s.n_faces, FALSE), s, s.structure, xa_, TRUE, val)

\* the error raised when non-symmetric values are given to a symmetric format
set_coeffs_sym_error_never(symmetric, xa_arg) == FALSE

set_coeffs_sym_error(symmetric, xa_arg) == xa_arg # NullPtr /\ ~symmetric

set_coeffs_csr_sym(mm, s, symmetric, interleaved, copy, da_arg, xa_arg, cda, cxa, u, rev) ==
  LET mc == mm.coeffs
      st == s.structure
      v0 == IF mc.val = NullArray THEN Arr(st.row_index[st.n_rows], u) ELSE mc.val
      v1 == IF ~st.direct_assembly THEN Arr(st.row_index[st.n_rows], 0) ELSE v0
      v2 == IF st.have_diag
            THEN [k \in DOMAIN v1 |->
                    IF \E ii \in 0..(st.n_rows - 1) : k = st.row_index[ii]
                    THEN (IF da_arg # NullPtr
                          THEN cda[CHOOSE ii \in 0..(st.n_rows - 1) : k = st.row_index[ii]]
                          ELSE 0)
                    ELSE v1[k]]
            ELSE v1
      v3 == IF xa_arg # NullPtr
            THEN IF st.direct_assembly
                 THEN set_xa_coeffs_csr_sym_direct(s, cxa, v2, rev)
                 ELSE set_xa_coeffs_csr_sym_increment(s, cxa, v2)
            ELSE csr_zero_extra_diag(st, v2)
  IN [mm EXCEPT !.coeffs.val = v3]

release_coeffs_csr_sym(mm) == mm

(* ------------------------ symmetric CSR kernel ------------------------- *)

\* y[col_id[jj]] += val[jj]*x[ii] for the slots of row ii from jj on
RECURSIVE sym_row_mirror(_, _, _, _, _, _)
sym_row_mirror(st, val, x_, ii, jj, y_) ==
  IF jj < st.row_index[ii+1] - st.row_index[ii]
  THEN LET k == st.row_index[ii] + jj
       IN sym_row_mirror(st, val, x_, ii, jj + 1,
                         [y_ EXCEPT ![st.col_id[k]] = @ + val[k] * x_[ii]])
  ELSE y_

RECURSIVE sym_rows(_, _, _, _, _, _, _)
sym_rows(st, val, x_, ii, jj_start, sym_jj_start, y_) ==
  IF ii < st.n_rows
  THEN LET sii == csr_row_sum(st, val, x_, ii, jj_start, -1, 0)
           y1 == [y_ EXCEPT ![ii] = @ + sii]
       IN sym_rows(st, val, x_, ii + 1, jj_start, sym_jj_start,
                   sym_row_mirror(st, val, x_, ii, sym_jj_start, y1))
  ELSE y_

mat_vec_p_l_csr_sym(exclude_diag, s, mm, cda, cxa, x_, y_) ==
  LET st == s.structure
      first_is_diag == Size(st.col_id) > st.row_index[0] /\ st.col_id[st.row_index[0]] = 0
      sym_jj_start == IF first_is_diag THEN 1 ELSE 0
      jj_start == IF first_is_diag /\ exclude_diag THEN 1 ELSE 0
  IN sym_rows(st, mm.coeffs.val, x_, 0, jj_start, sym_jj_start, zero_range(y_, 0, st.n_cols))

(* --------------------------- MSR coefficients -------------------------- *)

create_coeff_msr ==
  [n_prefetch_rows |-> 0, max_block_size |-> 0,
   d_val |-> NullPtr, own_d_val |-> NullArray, x_val |-> NullArray,
   x_prefetch |-> 0]

set_xa_coeffs_msr_direct(s, symmetric, interleaved, xa_, x_val) ==
  set_xa_coeffs_csr_faces(0, s, s.structure, symmetric, interleaved, xa_, FALSE, x_val)

set_xa_coeffs_msr_increment(s, symmetric, interleaved, xa_, x_val) ==
  set_xa_coeffs_csr_faces(0, s, s.structure, symmetric, interleaved, xa_, TRUE, x_val)

\* map or copy of the diagonal values, common to MSR and symmetric MSR
msr_set_d_val(mc, n_da, b3, copy, da_arg, cda) ==
  IF da_arg # NullPtr
  THEN IF copy
       THEN [mc EXCEPT !.own_d_val = [k \in 0..(n_da - 1) |-> cda[k]],
                       !.max_block_size =
                          IF mc.own_d_val = NullArray \/ mc.max_block_size < b3
                          THEN b3 ELSE @,
                       !.d_val = "private"]
       ELSE [mc EXCEPT !.d_val = "caller"]
  ELSE [mc EXCEPT !.d_val = NullPtr]

set_coeffs_msr(mm, s, symmetric, interleaved, copy, da_arg, xa_arg, cda, cxa, u) ==
  LET mc == mm.coeffs
      st == s.structure
      c1 == [mc EXCEPT !.n_prefetch_rows = mm.loop_length,
                       !.x_prefetch = IF mm.loop_length > 0 /\ mc.x_prefetch = 0
                                      THEN prefetch_size(s, mm.loop_length) ELSE @]
      c2 == msr_set_d_val(c1, mm.b_size[3] * st.n_rows, mm.b_size[3], copy, da_arg, cda)
      v0 == IF mc.x_val = NullArray THEN Arr(st.row_index[st.n_rows], u) ELSE mc.x_val
      v1 == IF ~st.direct_assembly THEN Arr(st.row_index[st.n_rows], 0) ELSE v0
      v2 == IF xa_arg # NullPtr
            THEN IF st.direct_assembly
                 THEN set_xa_coeffs_msr_direct(s, symmetric, interleaved, cxa, v1)
                 ELSE set_xa_coeffs_msr_increment(s, symmetric, interleaved, cxa, v1)
            ELSE csr_zero_extra_diag(st, v1)
  IN [mm EXCEPT !.coeffs = [c2 EXCEPT !.x_val = v2]]

release_coeffs_msr(mm) == [mm EXCEPT !.coeffs.d_val = NullPtr]

(* ----------------------------- MSR kernels ----------------------------- *)

msr_d_val(mm, cda) ==
  IF mm.coeffs.d_val = NullPtr THEN NullArray
  ELSE deref(mm.coeffs.d_val, mm.coeffs.own_d_val, cda)

mat_vec_p_l_msr(exclude_diag, s, mm, cda, cxa, x_, y_) ==
  LET st == s.structure
      d_val == msr_d_val(mm, cda)
  IN IF ~exclude_diag /\ d_val # NullArray
     THEN [ii \in DOMAIN y_ |->
             IF ii < st.n_rows
             THEN csr_row_sum(st, mm.coeffs.x_val, x_, ii, 0, -1, 0) + d_val[ii] * x_[ii]
             ELSE y_[ii]]
     ELSE [ii \in DOMAIN y_ |->
             IF ii < st.n_rows
             THEN csr_row_sum(st, mm.coeffs.x_val, x_, ii, 0, ii, 0)
             ELSE y_[ii]]

\* component kk of block ii of the extra-diagonal product
RECURSIVE b_msr_row_sum(_, _, _, _, _, _, _, _)
b_msr_row_sum(st, x_val, b_size, x_, ii, jj, kk, acc) ==
  IF jj < st.row_index[ii+1] - st.row_index[ii]
  THEN LET k == st.row_index[ii] + jj
       IN b_msr_row_sum(st, x_val, b_size, x_, ii, jj + 1, kk,
                        acc + x_val[k] * x_[st.col_id[k]*b_size[1] + kk])
  ELSE acc

b_mat_vec_p_l_msr(exclude_diag, s, mm, cda, cxa, x_, y_) ==
  LET st == s.structure
      b_size == mm.b_size
      d_val == msr_d_val(mm, cda)
      with_diag == ~exclude_diag /\ d_val # NullArray
  IN [k \in DOMAIN y_ |->
        LET ii == k \div b_size[1]
            kk == k % b_size[1]
        IN IF ii < st.n_rows /\ kk < b_size[0]
           THEN b_msr_row_sum(st, mm.coeffs.x_val, b_size, x_, ii, 0, kk,
                              IF with_diag
                              THEN dense_b_row(ii, b_size, d_val, x_, kk, 0, 0)
                              ELSE 0)
           ELSE y_[k]]

mat_vec_p_l_msr_pf_with_diag(exclude_diag, s, mm, cda, cxa, x_, y_) ==
  LET d_val == msr_d_val(mm, cda)
  IN pf_chunks(s.structure, mm.coeffs.x_val, d_val, mm.coeffs.n_prefetch_rows, 0,
               d_val # NullArray, x_, y_)

mat_vec_p_l_msr_pf(exclude_diag, s, mm, cda, cxa, x_, y_) ==
  LET d_val == msr_d_val(mm, cda)
  IN pf_chunks(s.structure, mm.coeffs.x_val, d_val, mm.coeffs.n_prefetch_rows, 0,
               ~exclude_diag /\ d_val # NullArray, x_, y_)

(* ---------------------- symmetric MSR coefficients --------------------- *)

create_coeff_msr_sym ==
  [max_block_size |-> 0, d_val |-> NullPtr, own_d_val |-> NullArray, x_val |-> NullArray]

set_xa_coeffs_msr_sym_direct(s, xa_, x_val) ==
  set_xa_coeffs_csr_sym_faces(1, face_order(s.n_faces, FALSE), s, s.structure, xa_, FALSE, x_val)

set_xa_coeffs_msr_sym_increment(s, xa_, x_val) ==
  set_xa_coeffs_csr_sym_faces(1, face_order(s.n_faces, FALSE), s, s.structure, xa_, TRUE, x_val)

set_coeffs_msr_sym(mm, s, symmetric, interleaved, copy, da_arg, xa_arg, cda, cxa, u) ==
  LET mc == mm.coeffs
      st == s.structure
      c2 == msr_set_d_val(mc, mm.b_size[3] * st.n_rows, mm.b_size[3], copy, da_arg, cda)
      v0 == IF mc.x_val = NullArray THEN Arr(st.row_index[st.n_rows], u) ELSE mc.x_val
      v1 == IF ~st.direct_assembly THEN Arr(st.row_index[st.n_rows], 0) ELSE v0
      v2 == IF xa_arg # NullPtr
            THEN IF st.direct_assembly
                 THEN set_xa_coeffs_msr_sym_direct(s, cxa, v1)
                 ELSE set_xa_coeffs_msr_sym_increment(s, cxa, v1)
            ELSE csr_zero_extra_diag(st, v1)
  IN [mm EXCEPT !.coeffs = [c2 EXCEPT !.x_val = v2]]

release_coeffs_msr_sym(mm) == [mm EXCEPT !.coeffs.d_val = NullPtr]

(* ------------------------ symmetric MSR kernel ------------------------- *)

mat_vec_p_l_msr_sym(exclude_diag, s, mm, cda, cxa, x_, y_) ==
  LET st == s.structure
      y0 == IF ~exclude_diag
            THEN zero_range(diag_vec_p_l(msr_d_val(mm, cda), x_, y_, st.n_rows),
                            st.n_rows, st.n_cols)
            ELSE zero_range(y_, 0, st.n_cols)
  IN sym_rows(st, mm.coeffs.x_val, x_, 0, 0, 0, y0)

\* fixed 3x3 block variant: the block kernel with extents 3, 3, 3, 9
mat_vec_3_3_p_l_native(exclude_diag, s, mm, cda, cxa, x_, y_) ==
  b_mat_vec_p_l_native(exclude_diag, s,
                       [mm EXCEPT !.b_size = [i \in 0..3 |-> IF i = 3 THEN 9 ELSE 3]],
                       cda, cxa, x_, y_)

(* ----------------------------- get_diagonal ---------------------------- *)

\* element k of array a, or the value u read past its end
read_at(a, k, u) == IF k \in DOMAIN a THEN a[k] ELSE u

\* native reads da; MSR and symmetric MSR read x_val, the extra-diagonal
\* values, whose size is unrelated to n_cells
get_diagonal_separate(mm, s, cda, u) ==
  LET src == IF mm.type = CS_MATRIX_NATIVE
             THEN (IF mm.coeffs.da = NullPtr THEN NullArray
                   ELSE deref(mm.coeffs.da, mm.coeffs.own_da, cda))
             ELSE mm.coeffs.x_val
      b_size == mm.b_size
  IN IF b_size[3] = 1
     THEN [ii \in 0..(s.n_cells - 1) |->
             IF src # NullArray THEN read_at(src, ii, u) ELSE 0]
     ELSE [k \in 0..(s.n_cells*b_size[1] - 1) |->
             LET ii == k \div b_size[1]
                 jj == k % b_size[1]
             IN IF src = NullArray THEN 0
                ELSE IF jj < b_size[0]
                     THEN read_at(src, ii*b_size[3] + jj*b_size[2] + jj, u)
                     ELSE u]

get_diagonal_csr(mm, s, cda, u) ==
  LET st == s.structure
  IN [ii \in 0..(st.n_rows - 1) |->
        IF st.have_diag /\ (\E k \in st.row_index[ii]..(st.row_index[ii+1] - 1) :
                               st.col_id[k] = ii)
        THEN mm.coeffs.val[csr_find(st.col_id, st.row_index[ii], ii)]
        ELSE 0]

get_diagonal_csr_sym(mm, s, cda, u) ==
  LET st == s.structure
  IN [ii \in 0..(st.n_rows - 1) |->
        IF st.have_diag THEN mm.coeffs.val[st.row_index[ii]] ELSE 0]

(* --------------------------- matrix creation --------------------------- *)

\* number of threads of the build: 1 without OpenMP
NThreads == {1, 2}

ScalarBlock == Arr(4, 1)

\* block extents used by the checking and tuning code
diag_block_size == [i \in 0..3 |-> IF i = 3 THEN 9 ELSE 3]

cs_matrix_create(s, n_threads) ==
  LET loop_length == DefaultLoopLength
      vm0 == CASE s.type = CS_MATRIX_NATIVE -> "_mat_vec_p_l_native"
               [] s.type = CS_MATRIX_CSR ->
                    IF loop_length > 0 /\ n_threads = 1
                    THEN "_mat_vec_p_l_csr_pf" ELSE "_mat_vec_p_l_csr"
               [] s.type = CS_MATRIX_CSR_SYM -> "_mat_vec_p_l_csr_sym"
               [] s.type = CS_MATRIX_MSR ->
                    IF loop_length > 0 /\ n_threads = 1
                    THEN "_mat_vec_p_l_msr_pf" ELSE "_mat_vec_p_l_msr"
               [] s.type = CS_MATRIX_MSR_SYM -> "_mat_vec_p_l_msr_sym"
      vm2 == IF s.type = CS_MATRIX_NATIVE THEN "_b_mat_vec_p_l_native" ELSE NullPtr
  IN [type |-> s.type,
      b_size |-> ScalarBlock,
      loop_length |-> loop_length,
      coeffs |-> CASE s.type = CS_MATRIX_NATIVE -> create_coeff_native
                   [] s.type = CS_MATRIX_CSR -> create_coeff_csr
                   [] s.type = CS_MATRIX_CSR_SYM -> create_coeff_csr_sym
                   [] s.type = CS_MATRIX_MSR -> create_coeff_msr
                   [] s.type = CS_MATRIX_MSR_SYM -> create_coeff_msr_sym,
      vector_multiply |-> [i \in 0..3 |-> IF i < 2 THEN vm0 ELSE vm2]]

cs_matrix_create_tuned_any_type(s, n_threads, mv) ==
  LET mm == cs_matrix_create(s, n_threads)
  IN [mm EXCEPT !.loop_length = mv.loop_length,
                !.vector_multiply =
                   [i \in 0..3 |-> IF mv.vector_multiply[i] # NullPtr
                                   THEN mv.vector_multiply[i] ELSE @[i]]]

cs_matrix_create_tuned(s, n_threads, mv) ==
  LET mm == cs_matrix_create(s, n_threads)
  IN IF mv # NoVariant /\ mv.type = s.type
     THEN [mm EXCEPT !.loop_length = mv.loop_length,
                     !.vector_multiply =
                        [i \in 0..3 |-> IF mv.vector_multiply[i] # NullPtr
                                        THEN mv.vector_multiply[i] ELSE @[i]]]
     ELSE mm

(* ------------------------- coefficient binding ------------------------- *)

\* matrix->set_coefficients: the setter of the matrix type
matrix_set_coefficients(mm, s, symmetric, interleaved, copy, da_arg, xa_arg, cda, cxa, u, keep, rev) ==
  CASE mm.type = CS_MATRIX_NATIVE ->
         set_coeffs_native(mm, s, symmetric, interleaved, copy, da_arg, xa_arg,
                           cda, cxa, u, keep)
    [] mm.type = CS_MATRIX_CSR ->
         set_coeffs_csr(mm, s, symmetric, interleaved, copy, da_arg, xa_arg, cda, cxa, u)
    [] mm.type = CS_MATRIX_CSR_SYM ->
         set_coeffs_csr_sym(mm, s, symmetric, interleaved, copy, da_arg, xa_arg,
                            cda, cxa, u, rev)
    [] mm.type = CS_MATRIX_MSR ->
         set_coeffs_msr(mm, s, symmetric, interleaved, copy, da_arg, xa_arg, cda, cxa, u)
    [] mm.type = CS_MATRIX_MSR_SYM ->
         set_coeffs_msr_sym(mm, s, symmetric, interleaved, copy, da_arg, xa_arg,
                            cda, cxa, u)

\* bft_error of the symmetric setters
matrix_set_coefficients_error(mm, symmetric, xa_arg) ==
  mm.type \in SymTypes /\ set_coeffs_sym_error(symmetric, xa_arg)

\* block: NullArray (scalar) or the four block extents
cs_matrix_set_coefficients(mm, s, symmetric, block, da_arg, xa_arg, cda, cxa, u, keep, rev) ==
  matrix_set_coefficients([mm EXCEPT !.b_size = IF block = NullArray THEN ScalarBlock
                                                ELSE block],
                          s, symmetric, TRUE, FALSE, da_arg, xa_arg, cda, cxa, u, keep, rev)

\* an assignment that reads the split array as if it were interleaved
cs_matrix_set_coefficients_ni_interleaved(mm, s, symmetric, da_arg, xa_arg, cda, cxa, u, keep, rev) ==
  matrix_set_coefficients([mm EXCEPT !.b_size = ScalarBlock],
                          s, symmetric, TRUE, FALSE, da_arg, xa_arg, cda, cxa, u, keep, rev)

cs_matrix_set_coefficients_ni(mm, s, symmetric, da_arg, xa_arg, cda, cxa, u, keep, rev) ==
  matrix_set_coefficients([mm EXCEPT !.b_size = ScalarBlock],
                          s, symmetric, FALSE, FALSE, da_arg, xa_arg, cda, cxa, u, keep, rev)

cs_matrix_copy_coefficients(mm, s, symmetric, block, da_arg, xa_arg, cda, cxa, u, keep, rev) ==
  matrix_set_coefficients([mm EXCEPT !.b_size = IF block = NullArray THEN ScalarBlock
                                                ELSE block],
                          s, symmetric, TRUE, TRUE, da_arg, xa_arg, cda, cxa, u, keep, rev)

\* a destruction that frees the structure with the matrix
cs_matrix_destroy_with_structure(mm, s) == [matrix |-> [type |-> "none"], structure |-> [type |-> "none"]]

\* what is left of the matrix and of the structure it was created on: the
\* coefficients and the matrix are freed, the structure is not
cs_matrix_destroy(mm, s) == [matrix |-> [type |-> "none"], structure |-> s]

cs_matrix_release_coefficients(mm) ==
  CASE mm.type = CS_MATRIX_NATIVE -> release_coeffs_native(mm)
    [] mm.type = CS_MATRIX_CSR -> release_coeffs_csr(mm)
    [] mm.type = CS_MATRIX_CSR_SYM -> release_coeffs_csr_sym(mm)
    [] mm.type = CS_MATRIX_MSR -> release_coeffs_msr(mm)
    [] mm.type = CS_MATRIX_MSR_SYM -> release_coeffs_msr_sym(mm)

cs_matrix_get_diagonal(mm, s, cda, u) ==
  CASE mm.type = CS_MATRIX_CSR -> get_diagonal_csr(mm, s, cda, u)
    [] mm.type = CS_MATRIX_CSR_SYM -> get_diagonal_csr_sym(mm, s, cda, u)
    [] OTHER -> get_diagonal_separate(mm, s, cda, u)

(* --------------------------- products, public -------------------------- *)

\* call of a kernel through its function pointer
vector_product(kernel, exclude_diag, s, mm, cda, cxa, x_, y_) ==
  CASE kernel = "_mat_vec_p_l_native" ->
         mat_vec_p_l_native(exclude_diag, s, mm, cda, cxa, x_, y_)
    [] kernel = "_b_mat_vec_p_l_native" ->
         b_mat_vec_p_l_native(exclude_diag, s, mm, cda, cxa, x_, y_)
    [] kernel = "_3_3_mat_vec_p_l_native" ->
         mat_vec_3_3_p_l_native(exclude_diag, s, mm, cda, cxa, x_, y_)
    [] kernel = "_mat_vec_p_l_native_bull" ->
         mat_vec_p_l_native_bull(exclude_diag, s, mm, cda, cxa, x_, y_)
    [] kernel = "_mat_vec_p_l_csr" ->
         mat_vec_p_l_csr(exclude_diag, s, mm, cda, cxa, x_, y_)
    [] kernel = "_mat_vec_p_l_csr_pf" ->
         mat_vec_p_l_csr_pf(exclude_diag, s, mm, cda, cxa, x_, y_)
    [] kernel = "_mat_vec_p_l_csr_sym" ->
         mat_vec_p_l_csr_sym(exclude_diag, s, mm, cda, cxa, x_, y_)
    [] kernel = "_mat_vec_p_l_msr" ->
         mat_vec_p_l_msr(exclude_diag, s, mm, cda, cxa, x_, y_)
    [] kernel = "_b_mat_vec_p_l_msr" ->
         b_mat_vec_p_l_msr(exclude_diag, s, mm, cda, cxa, x_, y_)
    [] kernel = "_mat_vec_p_l_msr_pf" ->
         mat_vec_p_l_msr_pf(exclude_diag, s, mm, cda, cxa, x_, y_)
    [] kernel = "_mat_vec_p_l_msr_sym" ->
         mat_vec_p_l_msr_sym(exclude_diag, s, mm, cda, cxa, x_, y_)

\* bft_error raised inside the kernel
vector_product_error(kernel, exclude_diag) ==
  kernel = "_mat_vec_p_l_csr_pf" /\ mat_vec_p_l_csr_pf_error(exclude_diag)

\* the loops on prefetch lines advance by n_prefetch_rows: with
\* n_prefetch_rows = 0 (a prefetch kernel kept by a matrix whose loop_length
\* is 0) they never end
vector_product_loops(kernel, s, mm) ==
  /\ kernel \in {"_mat_vec_p_l_csr_pf", "_mat_vec_p_l_msr_pf"}
  /\ mm.coeffs.n_prefetch_rows = 0
  /\ s.structure.n_rows > 0

\* slot of vector_multiply and exclude_diag argument used by
\* cs_matrix_vector_multiply (exdiag = FALSE) and
\* cs_matrix_exdiag_vector_multiply (exdiag = TRUE)
multiply_slot_full(mm, exdiag) ==
  IF mm.b_size[3] = 1 THEN 0 ELSE 2

multiply_slot(mm, exdiag) ==
  IF mm.b_size[3] = 1 THEN (IF exdiag THEN 1 ELSE 0) ELSE (IF exdiag THEN 3 ELSE 2)

multiply_exclude_arg(mm, exdiag) ==
  IF mm.b_size[3] = 1 THEN exdiag ELSE FALSE

\* a missing kernel or an error inside the kernel ends the run (bft_error)
multiply_error(mm, exdiag) ==
  LET kernel == mm.vector_multiply[multiply_slot(mm, exdiag)]
  IN kernel = NullPtr \/ vector_product_error(kernel, multiply_exclude_arg(mm, exdiag))

cs_matrix_vector_multiply(s, mm, cda, cxa, x_, y_) ==
  vector_product(mm.vector_multiply[multiply_slot(mm, FALSE)],
                 multiply_exclude_arg(mm, FALSE), s, mm, cda, cxa, x_, y_)

cs_matrix_exdiag_vector_multiply(s, mm, cda, cxa, x_, y_) ==
  vector_product(mm.vector_multiply[multiply_slot(mm, TRUE)],
                 multiply_exclude_arg(mm, TRUE), s, mm, cda, cxa, x_, y_)

(* ------------------------------ variants ------------------------------ *)

variant_init == [vector_multiply |-> [i \in 0..3 |-> NullPtr]]

\* the variant appended with its kernels in the slots of both diagonal modes
variant_add_any_diag(name, type, block_flag, sym_flag, ed_flag, loop_length, vector_multiply, b_vector_multiply, m_variant) ==
  LET vm == [i \in 0..3 |->
               IF i < 2 /\ block_flag # 1 THEN vector_multiply
               ELSE IF i >= 2 /\ block_flag # 0 THEN b_vector_multiply
               ELSE variant_init.vector_multiply[i]]
  IN Append(m_variant, [name |-> name, type |-> type, symmetry |-> sym_flag,
                        loop_length |-> loop_length, vector_multiply |-> vm])

\* the variant appended to the list m_variant
variant_add(name, type, block_flag, sym_flag, ed_flag, loop_length, vector_multiply, b_vector_multiply, m_variant) ==
  LET v == variant_init
      vm == [i \in 0..3 |->
               IF i = 0 /\ block_flag # 1 /\ ed_flag # 1 THEN vector_multiply
               ELSE IF i = 1 /\ block_flag # 1 /\ ed_flag # 0 THEN vector_multiply
               ELSE IF i = 2 /\ block_flag # 0 /\ ed_flag # 1 THEN b_vector_multiply
               ELSE IF i = 3 /\ block_flag # 0 /\ ed_flag # 0 THEN b_vector_multiply
               ELSE v.vector_multiply[i]]
  IN Append(m_variant, [name |-> name, type |-> type, symmetry |-> sym_flag,
                        loop_length |-> loop_length, vector_multiply |-> vm])

\* the list with the symmetric types added whatever sym_flag
build_variant_list_sym_always(sym_flag, block_flag, loop_length) ==
  LET v1 == variant_add("Native, baseline", CS_MATRIX_NATIVE, block_flag, sym_flag, 2, 0,
                        "_mat_vec_p_l_native", "_b_mat_vec_p_l_native", << >>)
      v4 == variant_add("CSR", CS_MATRIX_CSR, block_flag, sym_flag, 2, 0,
                        "_mat_vec_p_l_csr", NullPtr, v1)
      v6 == variant_add("CSR_SYM", CS_MATRIX_CSR_SYM, block_flag, sym_flag, 2, 0,
                        "_mat_vec_p_l_csr_sym", NullPtr, v4)
      v7 == variant_add("MSR", CS_MATRIX_MSR, block_flag, sym_flag, 2, 0,
                        "_mat_vec_p_l_msr", "_b_mat_vec_p_l_msr", v6)
  IN variant_add("MSR_SYM", CS_MATRIX_MSR_SYM, block_flag, sym_flag, 2, 0,
                 "_mat_vec_p_l_msr_sym", NullPtr, v7)

\* loop_length: the loop length given to the Bull and prefetch variants (508)
build_variant_list(sym_flag, block_flag, loop_length) ==
  LET v1 == variant_add("Native, baseline", CS_MATRIX_NATIVE, block_flag, sym_flag, 2, 0,
                        "_mat_vec_p_l_native", "_b_mat_vec_p_l_native", << >>)
      v2 == variant_add("Native, 3x3 blocks", CS_MATRIX_NATIVE, block_flag, sym_flag, 2, 0,
                        NullPtr, "_3_3_mat_vec_p_l_native", v1)
      v3 == variant_add("Native, Bull algorithm", CS_MATRIX_NATIVE, block_flag, sym_flag, 2,
                        loop_length, "_mat_vec_p_l_native_bull", NullPtr, v2)
      v4 == variant_add("CSR", CS_MATRIX_CSR, block_flag, sym_flag, 2, 0,
                        "_mat_vec_p_l_csr", NullPtr, v3)
      v5 == variant_add("CSR, with prefetch", CS_MATRIX_CSR, block_flag, sym_flag, 0,
                        loop_length, "_mat_vec_p_l_csr_pf", NullPtr, v4)
      v6 == IF sym_flag = 1
            THEN variant_add("CSR_SYM", CS_MATRIX_CSR_SYM, block_flag, sym_flag, 2, 0,
                             "_mat_vec_p_l_csr_sym", NullPtr, v5)
            ELSE v5
      v7 == variant_add("MSR", CS_MATRIX_MSR, block_flag, sym_flag, 2, 0,
                        "_mat_vec_p_l_msr", "_b_mat_vec_p_l_msr", v6)
      v8 == variant_add("MSR, with prefetch", CS_MATRIX_MSR, block_flag, sym_flag, 2,
                        loop_length, "_mat_vec_p_l_msr_pf", NullPtr, v7)
  IN IF sym_flag = 1
     THEN variant_add("MSR_SYM", CS_MATRIX_MSR_SYM, block_flag, sym_flag, 2, 0,
                      "_mat_vec_p_l_msr_sym", NullPtr, v8)
     ELSE v8

\* largest |y[ii] - yr[ii]| over the first n_elts elements
RECURSIVE matrix_check_compare(_, _, _, _, _)
matrix_check_compare(ii, n_elts, y_, yr, dmax) ==
  IF ii < n_elts
  THEN LET d == IF y_[ii] >= yr[ii] THEN y_[ii] - yr[ii] ELSE yr[ii] - y_[ii]
       IN matrix_check_compare(ii + 1, n_elts, y_, yr, IF d > dmax THEN d ELSE dmax)
  ELSE dmax

(* ------------------------------- state --------------------------------- *)

VARIABLES
  mesh,              \* n_cells, n_cells_ext, n_faces and the face -> cells connectivity
  cs_glob_n_threads, \* number of threads of the run
  ms,                \* the matrix structure (cs_matrix_structure_t), or NoStruct
  m,                 \* the matrix (cs_matrix_t) with its coefficients, or NoMatrix
  da,                \* the caller's diagonal array
  xa,                \* the caller's extra-diagonal array
  x,                 \* the multiplier vector of the last product
  y,                 \* the resulting vector of the last product
  call,              \* the last call made: its name, its arguments and how it ended
  bound,             \* the last coefficient assignment made on the matrix
  other              \* another matrix created on the same structure, or NoMatrix

vars == <<mesh, cs_glob_n_threads, ms, m, da, xa, x, y, call, bound, other>>

NoStruct == [type |-> "none"]

NoMatrix == [type |-> "none"]

NoCall == [op |-> "none", status |-> "ok"]

NoBound == [op |-> "none", n |-> 0]

\* a fatal error (bft_error) ends the run
Alive == call.status = "ok"

\* connectivities of n_faces faces: each face joins two distinct cells, at
\* least one of them owned (a face between two ghost cells is not in the
\* local face list)
FaceLists(n_cells, n_cells_ext, n_faces) ==
  {fc \in [0..(2*n_faces - 1) -> 1..n_cells_ext] :
     \A f \in 0..(n_faces-1) :
        /\ fc[2*f] # fc[2*f + 1]
        /\ (fc[2*f] <= n_cells \/ fc[2*f + 1] <= n_cells)}

MeshesUpTo(max_cells_ext, max_faces) ==
  UNION {UNION {UNION {
    {[n_cells |-> nc, n_cells_ext |-> ne, n_faces |-> nf, face_cell |-> fc] :
       fc \in FaceLists(nc, ne, nf)} :
    nf \in 0..max_faces} : nc \in 1..ne} : ne \in 1..max_cells_ext}

Meshes == MeshesUpTo(MaxCellsExt, MaxFaces)

\* a pair of cells joined by more than one face
HasRepeatedPair(msh) ==
  \E f, g \in 0..(msh.n_faces - 1) :
     /\ f < g
     /\ {msh.face_cell[2*f], msh.face_cell[2*f+1]}
          = {msh.face_cell[2*g], msh.face_cell[2*g+1]}

\* the coefficient sets and vectors the callers use
CoeffFamilies == {"ring", "ramp"}

DaValues(fam, n) == [k \in 0..(n - 1) |-> IF fam = "ring" THEN 2 ELSE 5 + k]

XaValues(fam, n) == [k \in 0..(n - 1) |-> IF fam = "ring" THEN -1 ELSE 3 + k]

\* the families a caller fills its arrays from before assignment number n + 1
FamiliesAt(n) == IF n = 0 THEN CoeffFamilies ELSE {"ramp"}

VectorFamilies == {"ramp", "squares"}

XValues(fam, n) ==
  [k \in 0..(n - 1) |->
     CASE fam = "unit" -> (IF k = 0 THEN 1 ELSE 0)
       [] fam = "ramp" -> k + 1
       [] fam = "squares" -> (k + 2) * (k + 2)]

\* content of a result vector before the product writes it
JunkVector(n) == Arr(n, 50)

InitWith(meshes) ==
  /\ mesh \in meshes
  /\ cs_glob_n_threads \in NThreads
  /\ ms = NoStruct
  /\ m = NoMatrix
  /\ da = << >>
  /\ xa = << >>
  /\ x = << >>
  /\ y = << >>
  /\ call = NoCall
  /\ bound = NoBound
  /\ other = NoMatrix

(* ------------------- structure creation and destruction ---------------- *)

StructureCreate ==
  /\ Alive
  /\ ms = NoStruct
  /\ \E type \in cs_matrix_type_name, have_diag \in BOOLEAN :
       ms' = cs_matrix_structure_create(type, have_diag, mesh.n_cells,
                                        mesh.n_cells_ext, mesh.n_faces,
                                        mesh.face_cell)
  /\ call' = [op |-> "cs_matrix_structure_create", status |-> "ok"]
  /\ UNCHANGED <<mesh, cs_glob_n_threads, other, m, da, xa, x, y, bound>>

StructureDestroy ==
  /\ Alive
  /\ ms # NoStruct
  /\ m = NoMatrix
  /\ other = NoMatrix
  /\ ms' = NoStruct
  /\ call' = [op |-> "cs_matrix_structure_destroy", status |-> "ok"]
  /\ UNCHANGED <<mesh, cs_glob_n_threads, other, m, da, xa, x, y, bound>>

InitStruct == InitWith(Meshes)

NextStruct == StructureCreate \/ StructureDestroy

SpecStruct == InitStruct /\ [][NextStruct]_vars

(* ------------------------- operations on a matrix ---------------------- *)

MatrixCreate ==
  /\ Alive
  /\ ms # NoStruct
  /\ m = NoMatrix
  /\ m' = cs_matrix_create(ms, cs_glob_n_threads)
  /\ bound' = NoBound
  /\ call' = [op |-> "cs_matrix_create", status |-> "ok"]
  /\ UNCHANGED <<mesh, cs_glob_n_threads, other, ms, da, xa, x, y>>

\* the variant given is one of those of a variant list
MatrixCreateTuned ==
  /\ Alive
  /\ ms # NoStruct
  /\ m = NoMatrix
  /\ \E sym_flag \in 0..2, block_flag \in 0..2 :
       LET m_variant == build_variant_list(sym_flag, block_flag, DefaultLoopLength)
       IN \E v_id \in 1..Len(m_variant) :
            /\ m' = cs_matrix_create_tuned(ms, cs_glob_n_threads, m_variant[v_id])
            /\ call' = [op |-> "cs_matrix_create_tuned", status |-> "ok",
                        mv |-> m_variant[v_id]]
  /\ bound' = NoBound
  /\ UNCHANGED <<mesh, cs_glob_n_threads, other, ms, da, xa, x, y>>

MatrixDestroy ==
  /\ Alive
  /\ m # NoMatrix
  /\ LET heap == cs_matrix_destroy(m, ms)
     IN m' = heap.matrix /\ ms' = heap.structure
  /\ bound' = NoBound
  /\ x' = << >>
  /\ y' = << >>
  /\ call' = [op |-> "cs_matrix_destroy", status |-> "ok"]
  /\ UNCHANGED <<mesh, cs_glob_n_threads, other, da, xa>>

\* the caller fills its arrays with the values of a family and calls one of
\* cs_matrix_set_coefficients, cs_matrix_set_coefficients_ni and
\* cs_matrix_copy_coefficients on them (da_arg, xa_arg = NullPtr: not passed)
Assign(op, symmetric, block, da_arg, xa_arg, fam) ==
  LET b3 == IF block = NullArray THEN 1 ELSE block[3]
      cda == DaValues(fam, mesh.n_cells_ext * b3)
      cxa == XaValues(fam, 2 * mesh.n_faces)
  IN /\ da' = cda
     /\ xa' = cxa
     /\ x' = << >>
     /\ y' = << >>
     /\ IF matrix_set_coefficients_error(m, symmetric, xa_arg)
        THEN /\ call' = [op |-> op, status |-> "fatal"]
             /\ UNCHANGED <<m, bound>>
        ELSE /\ call' = [op |-> op, status |-> "ok"]
             /\ bound' = [op |-> op, n |-> bound.n + 1, symmetric |-> symmetric,
                          block |-> block, da_arg |-> da_arg, xa_arg |-> xa_arg,
                          released |-> FALSE, da |-> cda, xa |-> cxa,
                          after_release |-> bound.n > 0 /\ bound.released]
             /\ \E u \in UninitVals,
                   keep \in (IF m.type = CS_MATRIX_NATIVE /\ m.coeffs.own_xa # NullArray
                             THEN BOOLEAN ELSE {FALSE}),
                   rev \in (IF m.type = CS_MATRIX_CSR_SYM THEN BOOLEAN ELSE {FALSE}) :
                  m' = CASE op = "cs_matrix_set_coefficients" ->
                              cs_matrix_set_coefficients(m, ms, symmetric, block, da_arg,
                                                         xa_arg, cda, cxa, u, keep, rev)
                         [] op = "cs_matrix_set_coefficients_ni" ->
                              cs_matrix_set_coefficients_ni(m, ms, symmetric, da_arg,
                                                            xa_arg, cda, cxa, u, keep, rev)
                         [] op = "cs_matrix_copy_coefficients" ->
                              cs_matrix_copy_coefficients(m, ms, symmetric, block, da_arg,
                                                          xa_arg, cda, cxa, u, keep, rev)
     /\ UNCHANGED <<mesh, cs_glob_n_threads, other, ms>>

\* blocks: the block descriptors passed; args: the pointers passed for da and
\* xa; max_binds: the number of assignments made on one matrix
SetCoefficients(blocks, args, max_binds) ==
  /\ Alive
  /\ m # NoMatrix
  /\ bound.n < max_binds
  /\ \E symmetric \in BOOLEAN, block \in blocks, da_arg \in args, xa_arg \in args,
        fam \in FamiliesAt(bound.n) :
       Assign("cs_matrix_set_coefficients", symmetric, block, da_arg, xa_arg, fam)

SetCoefficientsNi(args, max_binds) ==
  /\ Alive
  /\ m # NoMatrix
  /\ bound.n < max_binds
  /\ \E symmetric \in BOOLEAN, da_arg \in args, xa_arg \in args, fam \in FamiliesAt(bound.n) :
       Assign("cs_matrix_set_coefficients_ni", symmetric, NullArray, da_arg, xa_arg, fam)

CopyCoefficients(blocks, args, max_binds) ==
  /\ Alive
  /\ m # NoMatrix
  /\ bound.n < max_binds
  /\ \E symmetric \in BOOLEAN, block \in blocks, da_arg \in args, xa_arg \in args,
        fam \in FamiliesAt(bound.n) :
       Assign("cs_matrix_copy_coefficients", symmetric, block, da_arg, xa_arg, fam)

ReleaseCoefficients ==
  /\ Alive
  /\ m # NoMatrix
  /\ bound.n > 0
  /\ m' = cs_matrix_release_coefficients(m)
  /\ bound' = [bound EXCEPT !.released = TRUE]
  /\ x' = << >>
  /\ y' = << >>
  /\ call' = [op |-> "cs_matrix_release_coefficients", status |-> "ok"]
  /\ UNCHANGED <<mesh, cs_glob_n_threads, other, ms, da, xa>>

\* what the caller's arrays hold once it has overwritten them
OverwrittenDa == [k \in DOMAIN da |-> 30 - k]

OverwrittenXa == [k \in DOMAIN xa |-> 20 + k]

\* the caller overwrites the arrays it passed earlier
CallerWrite ==
  /\ Alive
  /\ m # NoMatrix
  /\ bound.n > 0
  /\ da' = OverwrittenDa
  /\ xa' = OverwrittenXa
  /\ da' # da
  /\ x' = << >>
  /\ y' = << >>
  /\ call' = [op |-> "caller write", status |-> "ok"]
  /\ UNCHANGED <<mesh, cs_glob_n_threads, other, ms, m, bound>>

GetDiagonal ==
  /\ Alive
  /\ m # NoMatrix
  /\ bound.n > 0
  /\ \E u \in UninitVals : y' = cs_matrix_get_diagonal(m, ms, da, u)
  /\ x' = << >>
  /\ call' = [op |-> "cs_matrix_get_diagonal", status |-> "ok"]
  /\ UNCHANGED <<mesh, cs_glob_n_threads, other, ms, m, da, xa, bound>>

\* cs_matrix_vector_multiply (exdiag = FALSE) or
\* cs_matrix_exdiag_vector_multiply (exdiag = TRUE) on a matrix without halo
Multiply(exdiag) ==
  /\ Alive
  /\ m # NoMatrix
  /\ bound.n > 0
  /\ \E fam \in VectorFamilies :
       LET x_ == XValues(fam, mesh.n_cells_ext * m.b_size[1])
           y_ == JunkVector(mesh.n_cells_ext * m.b_size[1])
           op == IF exdiag THEN "cs_matrix_exdiag_vector_multiply"
                 ELSE "cs_matrix_vector_multiply"
       IN /\ x' = x_
          /\ IF multiply_error(m, exdiag)
             THEN y' = y_ /\ call' = [op |-> op, status |-> "fatal"]
             ELSE IF vector_product_loops(m.vector_multiply[multiply_slot(m, exdiag)], ms, m)
             THEN y' = y_ /\ call' = [op |-> op, status |-> "hang"]
             ELSE /\ call' = [op |-> op, status |-> "ok"]
                  /\ y' = IF exdiag
                          THEN cs_matrix_exdiag_vector_multiply(ms, m, da, xa, x_, y_)
                          ELSE cs_matrix_vector_multiply(ms, m, da, xa, x_, y_)
  /\ UNCHANGED <<mesh, cs_glob_n_threads, other, ms, m, da, xa, bound>>

VectorMultiply == Multiply(FALSE)

ExdiagVectorMultiply == Multiply(TRUE)

(* ------------------ matrices bound once, scalar coefficients ----------- *)

BindMeshes == MeshesUpTo(MaxCellsExt, MaxBindFaces)

InitBind == InitWith(BindMeshes)

NextBind ==
  \/ StructureCreate
  \/ StructureDestroy
  \/ MatrixCreate
  \/ MatrixDestroy
  \/ SetCoefficients({NullArray}, {"caller"}, 1)
  \/ SetCoefficientsNi({"caller"}, 1)
  \/ CopyCoefficients({NullArray}, {"caller"}, 1)
  \/ VectorMultiply
  \/ ExdiagVectorMultiply

SpecBind == InitBind /\ [][NextBind]_vars

(* ------------------------ matrices bound to blocks --------------------- *)

SmallMeshes == MeshesUpTo(MaxSmallCellsExt, MaxBindFaces)

InitBlock == InitWith(SmallMeshes)

NextBlock ==
  \/ StructureCreate
  \/ StructureDestroy
  \/ MatrixCreate
  \/ MatrixCreateTuned
  \/ MatrixDestroy
  \/ SetCoefficients({diag_block_size}, {"caller"}, 1)
  \/ CopyCoefficients({diag_block_size}, {"caller"}, 1)
  \/ VectorMultiply
  \/ ExdiagVectorMultiply

SpecBlock == InitBlock /\ [][NextBlock]_vars

(* ---------------------- matrices bound more than once ------------------ *)

RebindMeshes == MeshesUpTo(MaxSmallCellsExt, MaxRebindFaces)

InitRebind == InitWith(RebindMeshes)

NextRebind ==
  \/ StructureCreate
  \/ StructureDestroy
  \/ MatrixCreate
  \/ MatrixDestroy
  \/ SetCoefficients({NullArray}, {NullPtr, "caller"}, MaxBinds)
  \/ CopyCoefficients({NullArray}, {NullPtr, "caller"}, MaxBinds)
  \/ ReleaseCoefficients
  \/ CallerWrite
  \/ GetDiagonal
  \/ VectorMultiply
  \/ ExdiagVectorMultiply

SpecRebind == InitRebind /\ [][NextRebind]_vars

(* -------------------- matrices sharing one structure ------------------- *)

\* cs_matrix_create of another matrix on the structure of m
OtherCreate ==
  /\ Alive
  /\ ms # NoStruct
  /\ other = NoMatrix
  /\ other' = [type |-> ms.type, matrix |-> cs_matrix_create(ms, cs_glob_n_threads),
               assigned |-> FALSE]
  /\ call' = [op |-> "cs_matrix_create", status |-> "ok", on |-> "other"]
  /\ UNCHANGED <<mesh, cs_glob_n_threads, ms, m, da, xa, x, y, bound>>

\* cs_matrix_set_coefficients of the other matrix on the caller's arrays
OtherSetCoefficients ==
  /\ Alive
  /\ other # NoMatrix
  /\ ~other.assigned
  /\ Size(da) = mesh.n_cells_ext
  /\ \E symmetric \in BOOLEAN :
       IF matrix_set_coefficients_error(other.matrix, symmetric, "caller")
       THEN /\ call' = [op |-> "cs_matrix_set_coefficients", status |-> "fatal",
                        on |-> "other"]
            /\ UNCHANGED other
       ELSE /\ call' = [op |-> "cs_matrix_set_coefficients", status |-> "ok",
                        on |-> "other"]
            /\ \E u \in UninitVals, rev \in BOOLEAN :
                 other' = [type |-> ms.type,
                           matrix |-> cs_matrix_set_coefficients(
                                        other.matrix, ms, symmetric, NullArray, "caller",
                                        "caller", da, xa, u, FALSE, rev),
                           assigned |-> TRUE, symmetric |-> symmetric,
                           da |-> da, xa |-> xa]
  /\ UNCHANGED <<mesh, cs_glob_n_threads, ms, m, da, xa, x, y, bound>>

\* cs_matrix_vector_multiply on the other matrix
OtherMultiply ==
  /\ Alive
  /\ other # NoMatrix
  /\ other.assigned
  /\ \E fam \in VectorFamilies :
       LET x_ == XValues(fam, mesh.n_cells_ext)
           y_ == JunkVector(mesh.n_cells_ext)
       IN /\ x' = x_
          /\ IF multiply_error(other.matrix, FALSE)
             THEN /\ y' = y_
                  /\ call' = [op |-> "cs_matrix_vector_multiply", status |-> "fatal",
                              on |-> "other"]
             ELSE /\ y' = cs_matrix_vector_multiply(ms, other.matrix, da, xa, x_, y_)
                  /\ call' = [op |-> "cs_matrix_vector_multiply", status |-> "ok",
                              on |-> "other"]
  /\ UNCHANGED <<mesh, cs_glob_n_threads, ms, m, da, xa, bound, other>>

\* cs_matrix_destroy of the other matrix
OtherDestroy ==
  /\ Alive
  /\ other # NoMatrix
  /\ LET heap == cs_matrix_destroy(other.matrix, ms)
     IN other' = heap.matrix /\ ms' = heap.structure
  /\ call' = [op |-> "cs_matrix_destroy", status |-> "ok", on |-> "other"]
  /\ UNCHANGED <<mesh, cs_glob_n_threads, m, da, xa, x, y, bound>>

InitShare == InitWith(RebindMeshes)

NextShare ==
  \/ StructureCreate
  \/ StructureDestroy
  \/ MatrixCreate
  \/ MatrixDestroy
  \/ SetCoefficients({NullArray}, {"caller"}, 1)
  \/ SetCoefficientsNi({"caller"}, 1)
  \/ CopyCoefficients({NullArray}, {"caller"}, 1)
  \/ ReleaseCoefficients
  \/ GetDiagonal
  \/ VectorMultiply
  \/ ExdiagVectorMultiply
  \/ OtherCreate
  \/ OtherSetCoefficients
  \/ OtherMultiply
  \/ OtherDestroy

SpecShare == InitShare /\ [][NextShare]_vars

(* ------------------ public entry points, halo, NULL matrix ------------- *)

CS_PERIO_ROTA_COPY == "CS_PERIO_ROTA_COPY"
CS_PERIO_ROTA_RESET == "CS_PERIO_ROTA_RESET"
CS_PERIO_ROTA_IGNORE == "CS_PERIO_ROTA_IGNORE"

RotationModes == {CS_PERIO_ROTA_COPY, CS_PERIO_ROTA_RESET, CS_PERIO_ROTA_IGNORE}

\* matrix->halo = NULL
NoHalo == [type |-> "none"]

\* the halo given at structure creation: its periodicity is a list of
\* transforms, n_transforms their number
Periodicities ==
  {<< >>, <<"translation">>, <<"rotation">>}

Halos ==
  {NoHalo} \cup {[n_transforms |-> Len(p), periodicity |-> p] : p \in Periodicities}

\* the structure and the matrix keep the pointer to the halo of the mesh
EntryMeshes ==
  {[n_cells |-> k.n_cells, n_cells_ext |-> k.n_cells_ext, n_faces |-> k.n_faces,
    face_cell |-> k.face_cell, halo |-> h] :
     k \in {r \in RebindMeshes : r.n_faces = MaxRebindFaces}, h \in Halos}

\* values received in ghost cells
GhostVals == {7}

\* cs_halo_sync_var, cs_halo_sync_var_strided, cs_perio_sync_var_scal and
\* cs_perio_sync_var_vect: the ghost entries of x receive values
halo_sync_var(x_, n_cells, stride, g) ==
  [k \in DOMAIN x_ |-> IF k >= n_cells * stride THEN g ELSE x_[k]]

\* bft_error of _pre_vector_multiply_sync
pre_vector_multiply_sync_error(rotation_mode, mm, halo) ==
  /\ mm.b_size[3] = 1
  /\ halo.n_transforms > 0
  /\ rotation_mode = CS_PERIO_ROTA_IGNORE

pre_vector_multiply_sync(rotation_mode, mm, s, halo, x_, y_, g) ==
  IF mm.b_size[3] = 1
  THEN [x |-> halo_sync_var(x_, s.n_cells, 1, g),
        y |-> zero_range(y_, s.n_cells, s.n_cells_ext)]
  ELSE [x |-> halo_sync_var(x_, s.n_cells, mm.b_size[1], g),
        y |-> b_zero_range(y_, s.n_cells, s.n_cells_ext, mm.b_size)]

SyncEntries == {"cs_matrix_vector_multiply", "cs_matrix_exdiag_vector_multiply"}

\* one of the three product entry points on a matrix with or without halo;
\* call.kernel is the function called through matrix->vector_multiply
EntryMultiply(entry) ==
  /\ Alive
  /\ m # NoMatrix
  /\ bound.n > 0
  /\ \E fam \in {"ramp"}, g \in GhostVals :
     \E rotation_mode \in IF entry \in SyncEntries THEN RotationModes ELSE {"none"} :
       LET exdiag == entry = "cs_matrix_exdiag_vector_multiply"
           x_ == XValues(fam, mesh.n_cells_ext * m.b_size[1])
           y_ == JunkVector(mesh.n_cells_ext * m.b_size[1])
           sync == entry \in SyncEntries /\ mesh.halo # NoHalo
           pre == IF sync
                  THEN pre_vector_multiply_sync(rotation_mode, m, ms, mesh.halo, x_, y_, g)
                  ELSE [x |-> x_, y |-> y_]
           kernel == m.vector_multiply[multiply_slot(m, exdiag)]
           exclude == multiply_exclude_arg(m, exdiag)
           done(status, k, error) ==
             [op |-> entry, status |-> status, rotation_mode |-> rotation_mode,
              kernel |-> k, error |-> error]
       IN /\ x' = pre.x
          /\ CASE sync /\ pre_vector_multiply_sync_error(rotation_mode, m, mesh.halo) ->
                    y' = pre.y /\ call' = done("fatal", NullPtr, "perio_ignore")
               [] OTHER ->
                    IF kernel = NullPtr
                    THEN y' = pre.y /\ call' = done("fatal", NullPtr, "missing")
                    ELSE IF vector_product_error(kernel, exclude)
                    THEN y' = pre.y /\ call' = done("fatal", kernel, "kernel")
                    ELSE IF vector_product_loops(kernel, ms, m)
                    THEN y' = pre.y /\ call' = done("hang", kernel, "none")
                    ELSE /\ y' = vector_product(kernel, exclude, ms, m, da, xa, pre.x, pre.y)
                         /\ call' = done("ok", kernel, "none")
  /\ UNCHANGED <<mesh, cs_glob_n_threads, other, ms, m, da, xa, bound>>

\* cs_matrix_get_n_columns, cs_matrix_get_n_rows, cs_matrix_get_diag_block_size
QueryOps ==
  {"cs_matrix_get_n_columns", "cs_matrix_get_n_rows", "cs_matrix_get_diag_block_size"}

cs_matrix_get_diag_block_size_error(mm) ==
  mm.type \in {CS_MATRIX_CSR, CS_MATRIX_CSR_SYM, CS_MATRIX_MSR_SYM}

Query ==
  /\ Alive
  /\ m # NoMatrix
  /\ \E op \in QueryOps :
       call' = CASE op = "cs_matrix_get_n_columns" ->
                      [op |-> op, status |-> "ok", result |-> ms.n_cells_ext]
                 [] op = "cs_matrix_get_n_rows" ->
                      [op |-> op, status |-> "ok", result |-> ms.n_cells]
                 [] OTHER ->
                      IF cs_matrix_get_diag_block_size_error(m)
                      THEN [op |-> op, status |-> "fatal"]
                      ELSE [op |-> op, status |-> "ok", result |-> m.b_size]
  /\ UNCHANGED <<mesh, cs_glob_n_threads, other, ms, m, da, xa, x, y, bound>>

\* the public operations that take a matrix
PublicOps ==
  QueryOps \cup
  {"cs_matrix_set_coefficients", "cs_matrix_set_coefficients_ni",
   "cs_matrix_copy_coefficients", "cs_matrix_release_coefficients",
   "cs_matrix_get_diagonal", "cs_matrix_vector_multiply",
   "cs_matrix_vector_multiply_nosync", "cs_matrix_exdiag_vector_multiply"}

\* the operations that start with if (matrix == NULL) bft_error(...)
NullChecked ==
  PublicOps \ {"cs_matrix_vector_multiply", "cs_matrix_vector_multiply_nosync",
               "cs_matrix_exdiag_vector_multiply"}

\* outcome of an operation called with matrix = NULL: the operations outside
\* NullChecked only have assert(matrix != NULL), which stops a debug build
\* and is compiled out with NDEBUG, where the fields of NULL are read
null_matrix_call(op, ndebug) ==
  IF op \in NullChecked THEN "fatal"
  ELSE IF ndebug THEN "undefined" ELSE "abort"

NullMatrixCall ==
  /\ Alive
  /\ m = NoMatrix
  /\ \E op \in PublicOps, ndebug \in BOOLEAN :
       call' = [op |-> op, status |-> null_matrix_call(op, ndebug), matrix |-> NullPtr]
  /\ UNCHANGED <<mesh, cs_glob_n_threads, other, ms, m, da, xa, x, y, bound>>

InitEntry == InitWith(EntryMeshes)

NextEntry ==
  \/ StructureCreate
  \/ StructureDestroy
  \/ MatrixCreate
  \/ MatrixCreateTuned
  \/ MatrixDestroy
  \/ SetCoefficients({NullArray, diag_block_size}, {"caller"}, 1)
  \/ EntryMultiply("cs_matrix_vector_multiply")
  \/ EntryMultiply("cs_matrix_vector_multiply_nosync")
  \/ EntryMultiply("cs_matrix_exdiag_vector_multiply")
  \/ Query
  \/ NullMatrixCall

SpecEntry == InitEntry /\ [][NextEntry]_vars

(* ------------------------------- tuning -------------------------------- *)

RECURSIVE Gcd(_, _)
Gcd(a, b) == IF b = 0 THEN a ELSE Gcd(b, a % b)

Abs(a) == IF a < 0 THEN -a ELSE a

\* times and speedups are doubles, kept here as exact fractions n / d in
\* lowest terms, d > 0
Rat(n, d) ==
  LET g == Gcd(Abs(n), Abs(d))
  IN IF d < 0 THEN [n |-> (-n) \div g, d |-> (-d) \div g]
     ELSE [n |-> n \div g, d |-> d \div g]

RAdd(a, b) == Rat(a.n * b.d + b.n * a.d, a.d * b.d)

RMul(a, b) == Rat(a.n * b.n, a.d * b.d)

RDiv(a, b) == Rat(a.n * b.d, a.d * b.n)

RLess(a, b) == a.n * b.d < b.n * a.d

RZero == Rat(0, 1)

ROne == Rat(1, 1)

\* the value _variant_init gives to a cost that is not measured
Unmeasured == Rat(-1, 1)

\* the types in the order of cs_matrix_type_t
TypeOrder ==
  <<CS_MATRIX_NATIVE, CS_MATRIX_CSR, CS_MATRIX_CSR_SYM, CS_MATRIX_MSR, CS_MATRIX_MSR_SYM>>

\* sym_flag and block_flag of a weight: 0 for weight 0, 1 for weight 1, 2
\* in between
weight_flag(w) == IF RLess(RZero, w) THEN (IF RLess(w, ROne) THEN 2 ELSE 1) ELSE 0

\* _matrix_tune_test: the costs measured on the variants; assign_time[v_id, o_id]
\* and vector_time[v_id, sub_id] are the times the timer gives
matrix_tune_test(m_variant, assign_time, vector_time) ==
  [v_id \in 1..Len(m_variant) |->
     LET v == m_variant[v_id]
         test_assign == v_id = 1 \/ m_variant[v_id - 1].type # v.type
         sym_start == IF v.symmetry % 2 = 0 THEN 0 ELSE 1
         sym_end == IF v.symmetry > 0 THEN 2 ELSE 1
         handled(sym_flag) ==
           sym_flag >= sym_start /\ sym_flag < sym_end /\ sym_flag + v.symmetry # 1
     IN [name |-> v.name, type |-> v.type, symmetry |-> v.symmetry,
         loop_length |-> v.loop_length, vector_multiply |-> v.vector_multiply,
         matrix_assign_cost |->
           [o_id \in 0..3 |->
              IF test_assign /\ handled(o_id % 2)
              THEN assign_time[v_id, o_id] ELSE Unmeasured],
         matrix_vector_cost |->
           [sub_id \in 0..7 |->
              IF /\ handled((sub_id \div 2) % 2)
                 /\ v.vector_multiply[(sub_id \div 4) * 2 + (sub_id % 2)] # NullPtr
              THEN vector_time[v_id, sub_id] ELSE Unmeasured]]]

\* position of a type in t_overhead and t_speedup
TypeIds == 0..(Len(TypeOrder) - 1)

type_id(type) == CHOOSE t_id \in TypeIds : TypeOrder[t_id + 1] = type

\* one pass of the loops on _block_flag and _sym_flag for a variant v
\* (o_id = _block_flag * 2 + _sym_flag); st = [t_overhead, t_speedup]
tuned_speedup_step(m_variant, n_min_products, v, o_id, st) ==
  LET sub_id == (o_id \div 2) * 4 + (o_id % 2) * 2
      t == type_id(v.type)
      t0 == type_id(m_variant[1].type)
      ov == IF /\ RLess(RZero, v.matrix_assign_cost[o_id])
               /\ n_min_products > 0 /\ n_min_products < 10000
            THEN [st.t_overhead EXCEPT ![t][o_id] =
                    RDiv(v.matrix_assign_cost[o_id], Rat(n_min_products, 1))]
            ELSE st.t_overhead
      speedup == RDiv(RAdd(m_variant[1].matrix_vector_cost[sub_id], ov[t0][o_id]),
                      RAdd(v.matrix_vector_cost[sub_id], ov[t][o_id]))
  IN [t_overhead |-> ov,
      t_speedup |-> IF RLess(st.t_speedup[t][sub_id], speedup)
                    THEN [st.t_speedup EXCEPT ![t][sub_id] = speedup]
                    ELSE st.t_speedup]

\* loop on the variants that fills t_overhead and t_speedup
RECURSIVE tuned_speedups(_, _, _, _)
tuned_speedups(m_variant, n_min_products, v_id, st) ==
  IF v_id <= Len(m_variant)
  THEN LET v == m_variant[v_id]
           s0 == tuned_speedup_step(m_variant, n_min_products, v, 0, st)
           s1 == tuned_speedup_step(m_variant, n_min_products, v, 1, s0)
           s2 == tuned_speedup_step(m_variant, n_min_products, v, 2, s1)
           s3 == tuned_speedup_step(m_variant, n_min_products, v, 3, s2)
       IN tuned_speedups(m_variant, n_min_products, v_id + 1, s3)
  ELSE st

\* weighted speedup of a type, -1 if a category the weights ask for has no
\* speedup
tuned_type_speedup(t_speedup, sym_weight, block_weight) ==
  LET nb == RAdd(ROne, RMul(Unmeasured, block_weight))
      ns == RAdd(ROne, RMul(Unmeasured, sym_weight))
      sum == RAdd(RAdd(RMul(RMul(nb, ns), t_speedup[0]),
                       RMul(RMul(nb, sym_weight), t_speedup[2])),
                  RAdd(RMul(RMul(block_weight, ns), t_speedup[4]),
                       RMul(RMul(block_weight, sym_weight), t_speedup[6])))
      missing(sub_id) == RLess(t_speedup[sub_id], RZero)
  IN IF \/ (RLess(block_weight, ROne) /\ RLess(sym_weight, ROne) /\ missing(0))
        \/ (RLess(block_weight, ROne) /\ RLess(RZero, sym_weight) /\ missing(2))
        \/ (RLess(RZero, block_weight) /\ RLess(sym_weight, ROne) /\ missing(4))
        \/ (RLess(RZero, block_weight) /\ RLess(RZero, sym_weight) /\ missing(6))
     THEN Unmeasured ELSE sum

\* loop on the types that keeps the first type of largest weighted speedup
RECURSIVE tuned_type(_, _, _, _, _, _)
tuned_type(t_speedup, sym_weight, block_weight, t_id, max_speedup, t_id_max) ==
  IF t_id < Len(TypeOrder)
  THEN LET speedup == tuned_type_speedup(t_speedup[t_id], sym_weight, block_weight)
       IN IF RLess(max_speedup, speedup)
          THEN tuned_type(t_speedup, sym_weight, block_weight, t_id + 1, speedup, t_id)
          ELSE tuned_type(t_speedup, sym_weight, block_weight, t_id + 1,
                          max_speedup, t_id_max)
  ELSE t_id_max

\* one pass of the loops on _block_flag, _sym_flag and ed_flag for the variant
\* of position v_id, which replaces the selection of a category if its cost
\* is lower; cur_select holds the position in the list of the variant
\* selected for a category, 0 for none
tuned_result_step(m_variant, v_id, sub_id, r) ==
  LET v == m_variant[v_id]
      slot == (sub_id \div 4) * 2 + (sub_id % 2)
  IN IF /\ RLess(RZero, v.matrix_vector_cost[sub_id])
        /\ \/ RLess(v.matrix_vector_cost[sub_id], r.matrix_vector_cost[sub_id])
           \/ RLess(r.matrix_vector_cost[sub_id], RZero)
     THEN [r EXCEPT !.vector_multiply[slot] = v.vector_multiply[slot],
                    !.matrix_vector_cost[sub_id] = v.matrix_vector_cost[sub_id],
                    !.loop_length = v.loop_length,
                    !.cur_select[sub_id] = v_id]
     ELSE r

\* loop on the variants of the type chosen that builds the result; the
\* categories of a variant are visited from 7 to 0: block, symmetric and
\* exclude-diagonal ones first
RECURSIVE tuned_result(_, _, _)
tuned_result(m_variant, v_id, r) ==
  IF v_id <= Len(m_variant)
  THEN IF m_variant[v_id].type # r.type
       THEN tuned_result(m_variant, v_id + 1, r)
       ELSE LET r7 == tuned_result_step(m_variant, v_id, 7, r)
                r6 == tuned_result_step(m_variant, v_id, 6, r7)
                r5 == tuned_result_step(m_variant, v_id, 5, r6)
                r4 == tuned_result_step(m_variant, v_id, 4, r5)
                r3 == tuned_result_step(m_variant, v_id, 3, r4)
                r2 == tuned_result_step(m_variant, v_id, 2, r3)
                r1 == tuned_result_step(m_variant, v_id, 1, r2)
                r0 == tuned_result_step(m_variant, v_id, 0, r1)
            IN tuned_result(m_variant, v_id + 1, r0)
  ELSE r

\* u: the value of the loop_length of the result before a variant is selected
cs_matrix_variant_tuned(sym_weight, block_weight, n_min_products, m_variant, u) ==
  LET st == tuned_speedups(m_variant, n_min_products, 1,
              [t_overhead |-> [t \in TypeIds |-> [o_id \in 0..3 |-> RZero]],
               t_speedup |-> [t \in TypeIds |-> [sub_id \in 0..7 |-> Unmeasured]]])
      t_id_max == tuned_type(st.t_speedup, sym_weight, block_weight, 0, RZero, 0)
  IN tuned_result(m_variant, 1,
       [type |-> TypeOrder[t_id_max + 1],
        symmetry |-> weight_flag(sym_weight),
        loop_length |-> u,
        vector_multiply |-> variant_init.vector_multiply,
        matrix_vector_cost |-> [sub_id \in 0..7 |-> Unmeasured],
        cur_select |-> [sub_id \in 0..7 |-> 0],
        t_speedup |-> st.t_speedup])

\* weights given by the callers
Weights == {RZero, Rat(1, 2), ROne}

MinProducts == {0, 1, 2}

\* times of the timer, in seconds, for an assignment of coefficients: to a
\* native matrix, to a matrix of another type
AssignTimes ==
  {<<Rat(1, 2), Rat(1, 2)>>, <<Rat(6, 1), Rat(3, 1)>>, <<Rat(3, 1), Rat(6, 1)>>}

\* the variants of a type are timed 1/2 s or 3/4 s on the products, twice
\* that for the types in slow; fast[s] is the rank, among the variants of its
\* type, of the variant timed 1/2 s on the coefficients of symmetry s
variant_rank(m_variant, v_id) ==
  Cardinality({w \in 1..v_id : m_variant[w].type = m_variant[v_id].type})

VectorTimes(m_variant, slow, fast) ==
  [k \in (1..Len(m_variant)) \X (0..7) |->
     LET v_id == k[1]
         sym == (k[2] \div 2) % 2
         base == IF variant_rank(m_variant, v_id) = fast[sym] THEN 2 ELSE 3
     IN Rat(IF m_variant[v_id].type \in slow THEN 2 * base ELSE base, 4)]

SlowTypes == {{}, {CS_MATRIX_NATIVE}, {CS_MATRIX_CSR, CS_MATRIX_MSR}}

\* cs_matrix_variant_tuned: the variant list is built from the weights, the
\* variants are timed, the type and the kernels are selected
VariantTuned ==
  /\ Alive
  /\ call = NoCall
  /\ \E sym_weight \in Weights, block_weight \in Weights, n_min_products \in MinProducts,
        a \in AssignTimes, slow \in SlowTypes, fast \in [0..1 -> 1..3], u \in UninitVals :
       LET list == build_variant_list(weight_flag(sym_weight), weight_flag(block_weight),
                                      DefaultLoopLength)
           m_variant == matrix_tune_test(list,
                          [k \in (1..Len(list)) \X (0..3) |->
                             IF list[k[1]].type = CS_MATRIX_NATIVE THEN a[1] ELSE a[2]],
                          VectorTimes(list, slow, fast))
       IN call' = [op |-> "cs_matrix_variant_tuned", status |-> "ok",
                   sym_weight |-> sym_weight, block_weight |-> block_weight,
                   n_min_products |-> n_min_products, m_variant |-> m_variant,
                   r |-> cs_matrix_variant_tuned(sym_weight, block_weight,
                                                 n_min_products, m_variant, u)]
  /\ UNCHANGED <<mesh, cs_glob_n_threads, other, ms, m, da, xa, x, y, bound>>

\* the mesh the variants are timed on
TuneMeshes == {r \in RebindMeshes : r.n_cells_ext = 1}

InitTune == InitWith(TuneMeshes)

NextTune == VariantTuned

SpecTune == InitTune /\ [][NextTune]_vars

(* ---------------------------- timing loops ----------------------------- *)

\* the timing loops of _matrix_tune_test, one step per timed call and per
\* reading of the timer. Times are ticks of the timer; a timed call advances
\* the timer by CallTicks. call holds the locals of the loop: n_runs, run_id,
\* wt0, wt1, the threshold of the test wt1 - wt0 < ..., the timer (now), the
\* cost recorded for the variant (cost, Unmeasured before the loop).

MaxMeasure == 20

\* t_measure given by the caller
Measures == {0, 5, MaxMeasure}

\* time a timed call takes
CallTicks == {1, 2}

\* the timer when the loop starts
StartTimes == {0, 3}

TimerLoops == {"create", "assign", "multiply"}

\* n_runs at the start of a loop
timer_n_runs(loop, test_assign, ed_flag) ==
  IF loop = "assign" THEN (IF test_assign /\ ed_flag = 0 THEN 8 ELSE 1) ELSE 8

\* the threshold of a loop: t_measure, but t_measure_assign for the
\* assignment, which is t_measure from the pass ed_flag = 0 on if the
\* assignment is measured for this variant (test_assign), -1 otherwise
timer_threshold(loop, test_assign, t_measure) ==
  IF loop = "assign" /\ ~test_assign THEN -1 ELSE t_measure

timer_doubles_never(elapsed, threshold) == FALSE

\* the test that doubles n_runs
timer_doubles(elapsed, threshold) == elapsed < threshold

\* the cost recorded when the loop is left
timer_cost(loop, elapsed, n_runs, cost) ==
  IF loop = "assign" /\ ~(n_runs > 1) THEN cost ELSE Rat(elapsed, n_runs)

TimerRunning == call.op = "timer" /\ call.pc = "loop"

TimerDone == call.op = "timer" /\ call.pc = "done"

\* wt0 = cs_timer_wtime(), wt1 = wt0; run_id = 0, n_runs = ...
TimerStart ==
  /\ Alive
  /\ call = NoCall \/ TimerDone
  /\ \E loop \in TimerLoops, test_assign \in BOOLEAN, ed_flag \in 0..1,
        t_measure \in Measures, wt0 \in StartTimes :
       /\ loop # "assign" => (test_assign /\ ed_flag = 0)
       /\ call' = [op |-> "timer", status |-> "ok", pc |-> "loop", loop |-> loop,
                   test_assign |-> test_assign, ed_flag |-> ed_flag,
                   t_measure |-> t_measure,
                   threshold |-> timer_threshold(loop, test_assign, t_measure),
                   n_runs |-> timer_n_runs(loop, test_assign, ed_flag),
                   run_id |-> 0, wt0 |-> wt0, wt1 |-> wt0, now |-> wt0,
                   cost |-> Unmeasured]
  /\ UNCHANGED <<mesh, cs_glob_n_threads, other, ms, m, da, xa, x, y, bound>>

\* one pass of the inner loop while (run_id < n_runs): the timed call, run_id++
TimedCall ==
  /\ Alive
  /\ TimerRunning
  /\ call.run_id < call.n_runs
  /\ \E d \in CallTicks :
       call' = [call EXCEPT !.run_id = @ + 1, !.now = @ + d]
  /\ UNCHANGED <<mesh, cs_glob_n_threads, other, ms, m, da, xa, x, y, bound>>

\* the end of a pass of the outer loop: wt1 = cs_timer_wtime(); n_runs is
\* doubled, or the outer loop is left and the cost recorded
TimerRead ==
  /\ Alive
  /\ TimerRunning
  /\ ~(call.run_id < call.n_runs)
  /\ LET wt1 == call.now
     IN IF timer_doubles(wt1 - call.wt0, call.threshold)
        THEN call' = [call EXCEPT !.wt1 = wt1, !.n_runs = @ * 2]
        ELSE call' = [call EXCEPT !.wt1 = wt1, !.pc = "done",
                        !.cost = timer_cost(call.loop, wt1 - call.wt0,
                                            call.n_runs, call.cost)]
  /\ UNCHANGED <<mesh, cs_glob_n_threads, other, ms, m, da, xa, x, y, bound>>

InitTimer == InitWith(TuneMeshes)

NextTimer ==
  \/ TimerStart
  \/ TimedCall
  \/ TimerRead

\* the tuner is a sequential program: a loop that can make a step makes it
SpecTimer ==
  InitTimer /\ [][NextTimer]_vars /\ WF_vars(TimedCall) /\ WF_vars(TimerRead)

(* ----------------------- structure properties -------------------------- *)

IsCompressed(s) == s.type \in CompressedTypes

\* the (row, column) pairs held in the owned rows of a compressed structure
StoredPairs(s) ==
  UNION {{<<ii, s.structure.col_id[k]>> :
            k \in s.structure.row_index[ii]..(s.structure.row_index[ii+1] - 1)} :
         ii \in 0..(s.structure.n_rows - 1)}

\* the pairs the face list implies, repeated faces merged
ImpliedPairs(s) ==
  LET faces == 0..(s.n_faces - 1)
      a(f) == face_ii(s.face_cell, f)
      b(f) == face_jj(s.face_cell, f)
      lo(f) == IF a(f) < b(f) THEN a(f) ELSE b(f)
      hi(f) == IF a(f) < b(f) THEN b(f) ELSE a(f)
      offdiag == IF s.type \in SymTypes
                 THEN {<<lo(f), hi(f)>> : f \in faces}
                 ELSE {<<a(f), b(f)>> : f \in faces} \cup {<<b(f), a(f)>> : f \in faces}
      diag == IF s.structure.have_diag
              THEN {<<i, i>> : i \in 0..(s.n_cells - 1)} ELSE {}
  IN {p \in offdiag : p[1] < s.n_cells} \cup diag

RowsAscending(s) ==
  \A ii \in 0..(s.structure.n_rows - 1) :
     \A k \in (s.structure.row_index[ii] + 1)..(s.structure.row_index[ii+1] - 1) :
        s.structure.col_id[k-1] < s.structure.col_id[k]

\* C5: after cs_matrix_structure_create for CSR, symmetric CSR, MSR or
\* symmetric MSR, with or without the diagonal, the column ids of every row
\* are strictly ascending.
C5_RowsStrictlyAscending ==
  (ms # NoStruct /\ IsCompressed(ms)) => RowsAscending(ms)

\* a symmetric structure whose row was filled out of order and left so
C5_UnsortedSymRow ==
  /\ ms # NoStruct
  /\ ms.type \in SymTypes
  /\ ~HasRepeatedPair(mesh)
  /\ ~RowsAscending(ms)

RECURSIVE RefFaces(_, _, _, _, _, _, _, _)
RefFaces(f, msh, symmetric, xa_, b1, i, k, x_) ==
  IF f < msh.n_faces
  THEN LET ii == msh.face_cell[2*f] - 1
           jj == msh.face_cell[2*f + 1] - 1
           up == IF symmetric THEN xa_[f] ELSE xa_[2*f]
           lo == IF symmetric THEN xa_[f] ELSE xa_[2*f + 1]
       IN (IF ii = i THEN up * x_[jj*b1 + k] ELSE 0)
          + (IF jj = i THEN lo * x_[ii*b1 + k] ELSE 0)
          + RefFaces(f + 1, msh, symmetric, xa_, b1, i, k, x_)
  ELSE 0

\* component k of the product of the diagonal block of row i by x
RECURSIVE RefDiag(_, _, _, _, _, _)
RefDiag(d, b_size, i, k, j, x_) ==
  IF j < b_size[0]
  THEN d[i*b_size[3] + k*b_size[2] + j] * x_[i*b_size[1] + j]
       + RefDiag(d, b_size, i, k, j + 1, x_)
  ELSE 0

\* the owned rows of y = A.x (or (A - D).x when exclude), d = NullArray: no diagonal
DenseRef(msh, d, xa_, symmetric, b_size, exclude, x_) ==
  [r \in 0..(msh.n_cells*b_size[1] - 1) |->
     LET i == r \div b_size[1]
         k == r % b_size[1]
     IN (IF exclude \/ d = NullArray THEN 0 ELSE RefDiag(d, b_size, i, k, 0, x_))
        + (IF xa_ = NullArray THEN 0
           ELSE RefFaces(0, msh, symmetric, xa_, b_size[1], i, k, x_))]

OwnedRowsEqual(y_, ref) == \A r \in DOMAIN ref : y_[r] = ref[r]

(* ------------------------- checking of variants ------------------------ *)

\* the 4-cell ring
Ring ==
  [n_cells |-> 4, n_cells_ext |-> 4, n_faces |-> 4,
   face_cell |-> [k \in 0..7 |-> IF k = 7 THEN 1 ELSE ((k + 1) \div 2) + 1]]

CheckMeshes == {msh \in Meshes : ~HasRepeatedPair(msh)} \cup {Ring}

LoopLengths == {SmallLoopLength, DefaultLoopLength}

CheckVectorFamilies == {"unit", "squares"}

\* cs_matrix_variant_test has built the list for one (sym_flag, block_flag)
\* and _matrix_check has allocated and initialized its working arrays
InitCheck ==
  /\ mesh \in CheckMeshes
  /\ cs_glob_n_threads = 1
  /\ ms = NoStruct
  /\ m = NoMatrix
  /\ bound = NoBound
  /\ other = NoMatrix
  /\ \E fam \in CoeffFamilies :
       /\ da = DaValues(fam, mesh.n_cells_ext * diag_block_size[3])
       /\ xa = XaValues(fam, 2 * mesh.n_faces)
  /\ \E fam \in CheckVectorFamilies :
       x = XValues(fam, mesh.n_cells_ext * diag_block_size[1])
  /\ y = JunkVector(mesh.n_cells_ext * diag_block_size[1])
  /\ \E sym_flag \in 0..1, block_flag \in 0..1, loop_length \in LoopLengths :
       call = [op |-> "_matrix_check", status |-> "ok",
               m_variant |-> build_variant_list(sym_flag, block_flag, loop_length),
               pos |-> 0, v_id |-> -1, b_id |-> 0, sym_flag |-> 0, ed_flag |-> 0,
               kernel |-> NullPtr, dmax |-> 0,
               yr0 |-> JunkVector(mesh.n_cells_ext * diag_block_size[1])]

\* one pass of the innermost loop body of _matrix_check; call.pos counts the
\* passes made, in the order of the loop nest (b_id, sym_flag, ed_flag, v_id)
MatrixCheckIteration ==
  /\ Alive
  /\ call.op = "_matrix_check"
  /\ call.pos < 8 * Len(call.m_variant)
  /\ LET n == Len(call.m_variant)
         v_id == call.pos % n
         ed_flag == (call.pos \div n) % 2
         sym_flag == (call.pos \div (2*n)) % 2
         b_id == call.pos \div (4*n)
         v == call.m_variant[v_id + 1]
         skipped == \/ (sym_flag = 0 /\ v.symmetry = 1)
                    \/ (sym_flag # 0 /\ v.symmetry = 0)
                    \/ sym_flag + v.symmetry = 1
         block == IF b_id = 0 THEN NullArray ELSE diag_block_size
         block_mult == IF b_id = 0 THEN 1 ELSE diag_block_size[1]
         s == cs_matrix_structure_create(v.type, TRUE, mesh.n_cells, mesh.n_cells_ext,
                                         mesh.n_faces, mesh.face_cell)
         m0 == [cs_matrix_create(s, cs_glob_n_threads) EXCEPT !.loop_length = v.loop_length]
         kernel == v.vector_multiply[b_id*2 + ed_flag]
         pass == [call EXCEPT !.pos = @ + 1, !.v_id = v_id, !.b_id = b_id,
                              !.sym_flag = sym_flag, !.ed_flag = ed_flag,
                              !.kernel = NullPtr]
     IN IF skipped \/ kernel = NullPtr
        THEN call' = pass /\ y' = y
        ELSE \E u \in UninitVals,
                rev \in (IF v.type = CS_MATRIX_CSR_SYM THEN BOOLEAN ELSE {FALSE}) :
               LET m1 == cs_matrix_set_coefficients(m0, s, sym_flag = 1, block,
                                                    "caller", "caller", da, xa,
                                                    u, FALSE, rev)
                   y1 == vector_product(kernel, ed_flag = 1, s, m1, da, xa, x, y)
               IN IF vector_product_error(kernel, ed_flag = 1)
                  THEN call' = [pass EXCEPT !.status = "fatal", !.kernel = kernel]
                       /\ y' = y
                  ELSE /\ y' = y1
                       /\ call' = [pass EXCEPT
                                     !.kernel = kernel,
                                     !.yr0 = IF v_id = 0
                                             THEN [k \in DOMAIN @ |->
                                                     IF k < mesh.n_cells*block_mult
                                                     THEN y1[k] ELSE @[k]]
                                             ELSE @,
                                     !.dmax = IF v_id = 0 THEN 0
                                              ELSE matrix_check_compare(
                                                     0, mesh.n_cells*block_mult,
                                                     y1, call.yr0, 0)]
  /\ UNCHANGED <<mesh, cs_glob_n_threads, other, ms, m, da, xa, x, bound>>

NextCheck == MatrixCheckIteration

SpecCheck == InitCheck /\ [][NextCheck]_vars

(* ------------------- prefetch kernels, chunk lengths ------------------- *)

\* largest loop length given to a prefetch kernel (the ring has 4 rows)
MaxPrefetchRows == 5

PrefetchMeshes == Meshes \cup {Ring}

\* the prefetch kernel of a type and the kernel without prefetch
prefetch_kernel(type) ==
  IF type = CS_MATRIX_CSR THEN "_mat_vec_p_l_csr_pf" ELSE "_mat_vec_p_l_msr_pf"

plain_kernel(type) ==
  IF type = CS_MATRIX_CSR THEN "_mat_vec_p_l_csr" ELSE "_mat_vec_p_l_msr"

\* a product by a prefetch kernel as the tuning and checking code make it:
\* structure and matrix of the type of the variant, m->loop_length =
\* v->loop_length, cs_matrix_set_coefficients, call of the kernel in a mode
\* the variant is registered for (the CSR one with the diagonal only)
PrefetchProduct ==
  /\ Alive
  /\ call = NoCall
  /\ \E type \in {CS_MATRIX_CSR, CS_MATRIX_MSR}, loop_length \in 1..MaxPrefetchRows,
        symmetric \in BOOLEAN, da_arg \in {NullPtr, "caller"},
        exclude_diag \in BOOLEAN, u \in UninitVals :
       /\ type = CS_MATRIX_CSR => ~exclude_diag
       /\ LET s == cs_matrix_structure_create(type, TRUE, mesh.n_cells, mesh.n_cells_ext,
                                              mesh.n_faces, mesh.face_cell)
              m0 == [cs_matrix_create(s, cs_glob_n_threads) EXCEPT
                       !.loop_length = loop_length]
              cda == DaValues("ramp", mesh.n_cells_ext)
              cxa == XaValues("ramp", 2 * mesh.n_faces)
              x_ == XValues("squares", mesh.n_cells_ext)
              m1 == cs_matrix_set_coefficients(m0, s, symmetric, NullArray, da_arg,
                                               "caller", cda, cxa, u, FALSE, FALSE)
          IN /\ ms' = s
             /\ m' = m1
             /\ da' = cda
             /\ xa' = cxa
             /\ x' = x_
             /\ y' = vector_product(prefetch_kernel(type), exclude_diag, s, m1, cda, cxa,
                                    x_, JunkVector(mesh.n_cells_ext))
             /\ call' = [op |-> "prefetch product", status |-> "ok",
                         kernel |-> prefetch_kernel(type),
                         exclude_diag |-> exclude_diag, da_arg |-> da_arg]
  /\ UNCHANGED <<mesh, cs_glob_n_threads, other, bound>>

\* the block kernel of a type and its kernel without blocks
block_kernel(type) ==
  IF type = CS_MATRIX_NATIVE THEN "_b_mat_vec_p_l_native" ELSE "_b_mat_vec_p_l_msr"

scalar_kernel(type) ==
  IF type = CS_MATRIX_NATIVE THEN "_mat_vec_p_l_native" ELSE "_mat_vec_p_l_msr"

\* a product by a block kernel on a matrix whose coefficients are set with
\* the block extents {1, 1, 1, 1}
DegenerateBlockProduct ==
  /\ Alive
  /\ call = NoCall
  /\ \E type \in {CS_MATRIX_NATIVE, CS_MATRIX_MSR}, symmetric \in BOOLEAN,
        da_arg \in {NullPtr, "caller"}, xa_arg \in {NullPtr, "caller"},
        exclude_diag \in BOOLEAN, u \in UninitVals :
       LET s == cs_matrix_structure_create(type, TRUE, mesh.n_cells, mesh.n_cells_ext,
                                           mesh.n_faces, mesh.face_cell)
           cda == DaValues("ramp", mesh.n_cells_ext)
           cxa == XaValues("ramp", 2 * mesh.n_faces)
           x_ == XValues("squares", mesh.n_cells_ext)
           m1 == cs_matrix_set_coefficients(cs_matrix_create(s, cs_glob_n_threads), s,
                                            symmetric, Arr(4, 1), da_arg, xa_arg,
                                            cda, cxa, u, FALSE, FALSE)
       IN /\ ms' = s
          /\ m' = m1
          /\ da' = cda
          /\ xa' = cxa
          /\ x' = x_
          /\ y' = vector_product(block_kernel(type), exclude_diag, s, m1, cda, cxa,
                                 x_, JunkVector(mesh.n_cells_ext))
          /\ call' = [op |-> "block product", status |-> "ok",
                      kernel |-> block_kernel(type),
                      exclude_diag |-> exclude_diag, da_arg |-> da_arg]
  /\ UNCHANGED <<mesh, cs_glob_n_threads, other, bound>>

\* the kernels are called directly: the number of threads plays no part
InitKernels == InitWith(PrefetchMeshes) /\ cs_glob_n_threads = 1

NextKernels ==
  \/ PrefetchProduct
  \/ DegenerateBlockProduct

SpecKernels == InitKernels /\ [][NextKernels]_vars

(* ----------------------- threaded native kernel ------------------------ *)

\* _mat_vec_p_l_native_omp, one step per read and per write of y by a
\* thread. call holds the numbering (n_threads, n_groups, group_index), the
\* group being processed (g_id) and, for each thread, the face it is at, the
\* end of its range, the point it has reached in the two updates of a face
\* and the value of y it has read.

\* number of threads of the numbering
OmpThreads == 2
\* largest number of groups of a numbering
MaxGroups == 2

OmpMeshes == MeshesUpTo(MaxCellsExt, MaxBindFaces) \cup {Ring}

\* face range of thread t_id in group g_id
omp_range_by_group(numbering, t_id, g_id) ==
  [start |-> numbering.group_index[(g_id*numbering.n_threads + t_id)*2],
   end |-> numbering.group_index[(g_id*numbering.n_threads + t_id)*2 + 1]]

omp_range(numbering, t_id, g_id) ==
  [start |-> numbering.group_index[(t_id*numbering.n_groups + g_id)*2],
   end |-> numbering.group_index[(t_id*numbering.n_groups + g_id)*2 + 1]]

\* cells of the faces start..end-1
range_cells(msh, r) ==
  UNION {{msh.face_cell[2*f], msh.face_cell[2*f + 1]} : f \in r.start..(r.end - 1)}

\* the numberings of the faces of a mesh: the ranges, in the order of
\* group_index, cut the face list in consecutive pieces, and inside a group
\* the ranges of two threads share no cell
Numberings(msh, n_groups) ==
  LET n == OmpThreads * n_groups
      cuts == {c \in [0..n -> 0..msh.n_faces] :
                 /\ c[0] = 0
                 /\ c[n] = msh.n_faces
                 /\ \A k \in 0..(n - 1) : c[k] <= c[k + 1]}
      numbering(c) == [n_threads |-> OmpThreads, n_groups |-> n_groups,
                       group_index |-> [k \in 0..(2*n - 1) |->
                                          IF k % 2 = 0 THEN c[k \div 2]
                                          ELSE c[(k \div 2) + 1]]]
      piece(c, t, g_id) == [start |-> c[t*n_groups + g_id],
                            end |-> c[t*n_groups + g_id + 1]]
  IN {numbering(c) : c \in {c \in cuts :
        \A g_id \in 0..(n_groups - 1) : \A t, w \in 0..(OmpThreads - 1) :
           t # w => range_cells(msh, piece(c, t, g_id))
                      \cap range_cells(msh, piece(c, w, g_id)) = {}}}

\* the threads at the start of their ranges of group g_id
omp_threads(numbering, g_id) ==
  [t_id \in 0..(numbering.n_threads - 1) |->
     [face_id |-> omp_range(numbering, t_id, g_id).start,
      end |-> omp_range(numbering, t_id, g_id).end,
      pc |-> "ii_load", tmp |-> 0]]

OmpRunning == call.op = "_mat_vec_p_l_native_omp" /\ call.phase = "faces"

\* entry of y a thread reads or writes next, and the term it adds
omp_target(th) ==
  IF th.pc \in {"ii_load", "ii_store"} THEN face_ii(ms.face_cell, th.face_id)
  ELSE face_jj(ms.face_cell, th.face_id)

omp_term(th) ==
  LET xa_ == deref(m.coeffs.xa, m.coeffs.own_xa, xa)
      ii == face_ii(ms.face_cell, th.face_id)
      jj == face_jj(ms.face_cell, th.face_id)
  IN IF th.pc = "ii_store"
     THEN (IF m.coeffs.symmetric THEN xa_[th.face_id] ELSE xa_[2*th.face_id]) * x[jj]
     ELSE (IF m.coeffs.symmetric THEN xa_[th.face_id] ELSE xa_[2*th.face_id + 1]) * x[ii]

\* call of the kernel on a native matrix with coefficients set
OmpStart ==
  /\ Alive
  /\ call = NoCall
  /\ \E symmetric \in BOOLEAN, exclude_diag \in BOOLEAN, n_groups \in 1..MaxGroups,
        u \in UninitVals :
     \E numbering \in Numberings(mesh, n_groups) :
       LET s == cs_matrix_structure_create(CS_MATRIX_NATIVE, TRUE, mesh.n_cells,
                                           mesh.n_cells_ext, mesh.n_faces, mesh.face_cell)
           cda == DaValues("ramp", mesh.n_cells_ext)
           cxa == XaValues("ramp", 2 * mesh.n_faces)
       IN /\ ms' = s
          /\ m' = cs_matrix_set_coefficients(cs_matrix_create(s, cs_glob_n_threads), s, symmetric,
                                             NullArray, "caller", "caller", cda, cxa,
                                             u, FALSE, FALSE)
          /\ da' = cda
          /\ xa' = cxa
          /\ x' = XValues("squares", mesh.n_cells_ext)
          /\ y' = JunkVector(mesh.n_cells_ext)
          /\ call' = [op |-> "_mat_vec_p_l_native_omp", status |-> "ok",
                      phase |-> "diagonal", exclude_diag |-> exclude_diag,
                      numbering |-> numbering, g_id |-> 0,
                      threads |-> omp_threads(numbering, 0)]
  /\ UNCHANGED <<mesh, cs_glob_n_threads, other, bound>>

\* diagonal part: _diag_vec_p_l and _zero_range, or _zero_range alone; the
\* parallel loop of _diag_vec_p_l writes each row once and ends on a barrier
OmpDiagonal ==
  /\ Alive
  /\ call.op = "_mat_vec_p_l_native_omp"
  /\ call.phase = "diagonal"
  /\ LET mc == m.coeffs
         da_ == IF mc.da = NullPtr THEN NullArray ELSE deref(mc.da, mc.own_da, da)
     IN y' = IF ~call.exclude_diag
             THEN zero_range(diag_vec_p_l(da_, x, y, ms.n_cells), ms.n_cells, ms.n_cells_ext)
             ELSE zero_range(y, 0, ms.n_cells_ext)
  /\ call' = [call EXCEPT !.phase = IF m.coeffs.xa # NullPtr THEN "faces" ELSE "done"]
  /\ UNCHANGED <<mesh, cs_glob_n_threads, other, ms, m, da, xa, x, bound>>

\* a thread reads the entry of y it updates
OmpLoad ==
  /\ Alive
  /\ OmpRunning
  /\ \E t_id \in DOMAIN call.threads :
       LET th == call.threads[t_id]
       IN /\ th.face_id < th.end
          /\ th.pc \in {"ii_load", "jj_load"}
          /\ call' = [call EXCEPT !.threads[t_id].tmp = y[omp_target(th)],
                                  !.threads[t_id].pc =
                                     IF th.pc = "ii_load" THEN "ii_store" ELSE "jj_store"]
  /\ UNCHANGED <<mesh, cs_glob_n_threads, other, ms, m, da, xa, x, y, bound>>

\* a thread writes the entry of y it has read, with its term added
OmpStore ==
  /\ Alive
  /\ OmpRunning
  /\ \E t_id \in DOMAIN call.threads :
       LET th == call.threads[t_id]
       IN /\ th.face_id < th.end
          /\ th.pc \in {"ii_store", "jj_store"}
          /\ y' = [y EXCEPT ![omp_target(th)] = th.tmp + omp_term(th)]
          /\ call' = [call EXCEPT !.threads[t_id] =
                        IF th.pc = "ii_store"
                        THEN [th EXCEPT !.pc = "jj_load", !.tmp = 0]
                        ELSE [th EXCEPT !.pc = "ii_load", !.tmp = 0,
                                        !.face_id = @ + 1]]
  /\ UNCHANGED <<mesh, cs_glob_n_threads, other, ms, m, da, xa, x, bound>>

\* end of the parallel loop on the threads: next group, or return
OmpBarrier ==
  /\ Alive
  /\ OmpRunning
  /\ \A t_id \in DOMAIN call.threads : call.threads[t_id].face_id >= call.threads[t_id].end
  /\ call' = IF call.g_id + 1 < call.numbering.n_groups
             THEN [call EXCEPT !.g_id = @ + 1,
                               !.threads = omp_threads(call.numbering, call.g_id + 1)]
             ELSE [call EXCEPT !.g_id = @ + 1, !.phase = "done"]
  /\ UNCHANGED <<mesh, cs_glob_n_threads, other, ms, m, da, xa, x, y, bound>>

InitOmp == InitWith(OmpMeshes) /\ cs_glob_n_threads > 1

NextOmp ==
  \/ OmpStart
  \/ OmpDiagonal
  \/ OmpLoad
  \/ OmpStore
  \/ OmpBarrier

SpecOmp == InitOmp /\ [][NextOmp]_vars

(* ------------------ steps of the tuning and checker runs ---------------- *)

\* _matrix_tune_test and _matrix_check, one step per call they make. call
\* holds the position in the loop nest (v_id, b_id, sym_flag, ed_flag), the
\* point reached in the loop body (pc), the number of matrices and of
\* structures created and not destroyed (live_m, live_ms), the mode of the
\* last cs_matrix_set_coefficients not followed by a release (coeffs), the
\* kernel invoked by the step just made (invoked), and the products whose
\* cost has been stored (measured).

\* passes of a timed loop counted (a loop makes 8 passes or more)
MaxRuns == 2

RunMeshes == {msh \in CheckMeshes : msh.n_cells_ext <= MaxSmallCellsExt}

Runs == {"_matrix_tune_test", "_matrix_check"}

NoCoeffs == [set |-> FALSE, b_id |-> 0, sym_flag |-> 0]

NoKernel == [kernel |-> NullPtr, b_id |-> 0, sym_flag |-> 0, exclude_diag |-> FALSE]

RunAt(pc) == call.op = "run" /\ call.pc = pc

RunVariantOf == call.m_variant[call.v_id + 1]

sym_start(v) == IF v.symmetry % 2 = 0 THEN 0 ELSE 1

sym_end(v) == IF v.symmetry > 0 THEN 2 ELSE 1

\* position after the end of the body of the loop on ed_flag of the tuning
\* run: next ed_flag, sym_flag, b_id, or next variant
tune_next(c) ==
  LET v == c.m_variant[c.v_id + 1]
  IN IF c.ed_flag + 1 < 2
     THEN [c EXCEPT !.ed_flag = @ + 1, !.pc = "assign"]
     ELSE IF c.sym_flag + 1 < sym_end(v)
     THEN [c EXCEPT !.ed_flag = 0, !.sym_flag = @ + 1, !.pc = "assign"]
     ELSE IF c.b_id + 1 < 2
     THEN [c EXCEPT !.ed_flag = 0, !.sym_flag = sym_start(v), !.b_id = @ + 1,
                    !.pc = "assign"]
     ELSE [c EXCEPT !.ed_flag = 0, !.sym_flag = 0, !.b_id = 0, !.v_id = @ + 1,
                    !.type_prev = v.type, !.pc = "variant"]

\* position at the end of the loop on the variants of the checker run: next
\* ed_flag, sym_flag, b_id, or end of the loops
check_next(c) ==
  IF c.ed_flag + 1 < 2
  THEN [c EXCEPT !.v_id = 0, !.ed_flag = @ + 1]
  ELSE IF c.sym_flag + 1 < 2
  THEN [c EXCEPT !.v_id = 0, !.ed_flag = 0, !.sym_flag = @ + 1]
  ELSE IF c.b_id + 1 < 2
  THEN [c EXCEPT !.v_id = 0, !.ed_flag = 0, !.sym_flag = 0, !.b_id = @ + 1]
  ELSE [c EXCEPT !.pc = "end"]

\* cs_matrix_variant_build_list has made the list; the run allocates and
\* fills its working arrays
RunStart ==
  /\ Alive
  /\ call = NoCall
  /\ da' = DaValues("ramp", mesh.n_cells_ext * diag_block_size[3])
  /\ xa' = XaValues("ramp", 2 * mesh.n_faces)
  /\ x' = XValues("squares", mesh.n_cells_ext * diag_block_size[1])
  /\ y' = JunkVector(mesh.n_cells_ext * diag_block_size[1])
  /\ \E run \in Runs, sym_flag \in 0..2, block_flag \in 0..2 :
       call' = [op |-> "run", status |-> "ok", run |-> run, pc |-> "variant",
                m_variant |-> build_variant_list(sym_flag, block_flag, DefaultLoopLength),
                v_id |-> 0, b_id |-> 0, sym_flag |-> 0, ed_flag |-> 0,
                type_prev |-> "CS_MATRIX_N_TYPES", test_assign |-> FALSE, run_id |-> 0,
                live_m |-> 0, live_ms |-> 0, coeffs |-> NoCoeffs, invoked |-> NoKernel,
                measured |-> {},
                yr0 |-> JunkVector(mesh.n_cells_ext * diag_block_size[1]), dmax |-> 0]
  /\ UNCHANGED <<mesh, cs_glob_n_threads, other, ms, m, bound>>

\* top of the loop on the variants
RunVariant ==
  /\ Alive
  /\ RunAt("variant")
  /\ LET c == [call EXCEPT !.invoked = NoKernel, !.run_id = 0]
         n == Len(call.m_variant)
     IN IF call.run = "_matrix_tune_test"
        THEN IF call.v_id >= n
             THEN call' = [c EXCEPT !.pc = "end"] /\ m' = m
             ELSE LET v == RunVariantOf
                  IN IF v.type # call.type_prev
                     THEN /\ call' = [c EXCEPT !.test_assign = TRUE, !.pc = "create"]
                          /\ m' = m
                     ELSE /\ call' = [c EXCEPT !.test_assign = FALSE, !.pc = "assign",
                                               !.sym_flag = sym_start(v)]
                          /\ m' = [m EXCEPT !.loop_length = v.loop_length]
        ELSE /\ m' = m
             /\ IF call.v_id >= n
                THEN call' = check_next(c)
                ELSE LET v == RunVariantOf
                     IN IF \/ (call.sym_flag = 0 /\ v.symmetry = 1)
                           \/ (call.sym_flag # 0 /\ v.symmetry = 0)
                        THEN call' = [c EXCEPT !.v_id = @ + 1]
                        ELSE call' = [c EXCEPT !.pc = "create"]
  /\ UNCHANGED <<mesh, cs_glob_n_threads, other, ms, da, xa, x, y, bound>>

\* cs_matrix_structure_create and cs_matrix_create: one pass of the timed
\* loop of the tuning run, which destroys the matrix and the structure it
\* holds first; the creation of the checker run
RunCreate ==
  /\ Alive
  /\ RunAt("create")
  /\ LET v == RunVariantOf
         s == cs_matrix_structure_create(v.type, TRUE, mesh.n_cells, mesh.n_cells_ext,
                                         mesh.n_faces, mesh.face_cell)
         m0 == cs_matrix_create(s, cs_glob_n_threads)
         m1 == [m0 EXCEPT !.loop_length = v.loop_length]
         kept_m == IF call.run = "_matrix_tune_test" /\ m # NoMatrix
                   THEN call.live_m - 1 ELSE call.live_m
         kept_ms == IF call.run = "_matrix_tune_test" /\ ms # NoStruct
                    THEN call.live_ms - 1 ELSE call.live_ms
         c == [call EXCEPT !.invoked = NoKernel, !.live_m = kept_m + 1,
                           !.live_ms = kept_ms + 1, !.coeffs = NoCoeffs,
                           !.run_id = IF @ < MaxRuns THEN @ + 1 ELSE @]
     IN /\ ms' = s
        /\ IF call.run = "_matrix_tune_test"
           THEN \/ call' = c /\ m' = m0
                \/ /\ call' = [c EXCEPT !.pc = "assign", !.run_id = 0,
                                        !.sym_flag = sym_start(v)]
                   /\ m' = m1
           ELSE /\ m' = m1
                /\ call' = IF call.sym_flag + v.symmetry = 1
                           THEN [c EXCEPT !.v_id = @ + 1, !.pc = "variant", !.run_id = 0]
                           ELSE [c EXCEPT !.pc = "assign", !.run_id = 0]
  /\ UNCHANGED <<mesh, cs_glob_n_threads, other, da, xa, x, y, bound>>

\* cs_matrix_set_coefficients: one pass of the timed loop of the tuning run
\* (a single pass unless the assignment is timed), the call of the checker
\* run
RunAssign ==
  /\ Alive
  /\ RunAt("assign")
  /\ LET v == RunVariantOf
         block == IF call.b_id = 0 THEN NullArray ELSE diag_block_size
         c == [call EXCEPT !.invoked = NoKernel]
     IN IF call.run = "_matrix_tune_test" /\ call.sym_flag + v.symmetry = 1
        THEN call' = tune_next(c) /\ m' = m
        ELSE \E u \in UninitVals,
                rev \in (IF v.type = CS_MATRIX_CSR_SYM THEN BOOLEAN ELSE {FALSE}) :
               IF matrix_set_coefficients_error(m, call.sym_flag = 1, "caller")
               THEN call' = [c EXCEPT !.status = "fatal"] /\ m' = m
               ELSE /\ m' = cs_matrix_set_coefficients(m, ms, call.sym_flag = 1, block,
                                                       "caller", "caller", da, xa,
                                                       u, FALSE, rev)
                    /\ LET c1 == [c EXCEPT !.coeffs = [set |-> TRUE, b_id |-> call.b_id,
                                                       sym_flag |-> call.sym_flag],
                                           !.run_id = IF @ < MaxRuns THEN @ + 1 ELSE @]
                       IN \/ /\ call.run = "_matrix_tune_test"
                             /\ call.test_assign
                             /\ call.ed_flag = 0
                             /\ call' = c1
                          \/ call' = [c1 EXCEPT !.pc = "product", !.run_id = 0]
  /\ UNCHANGED <<mesh, cs_glob_n_threads, other, ms, da, xa, x, y, bound>>

\* the product of the slot b_id*2 + ed_flag of the variant, if there is one:
\* one pass of the timed loop of the tuning run, which stores the cost at
\* its end; the call of the checker run and its comparison
RunProduct ==
  /\ Alive
  /\ RunAt("product")
  /\ LET v == RunVariantOf
         kernel == v.vector_multiply[call.b_id*2 + call.ed_flag]
         block_mult == IF call.b_id = 0 THEN 1 ELSE diag_block_size[1]
         c == [call EXCEPT !.invoked = NoKernel]
     IN IF kernel = NullPtr
        THEN call' = [c EXCEPT !.pc = "release"] /\ y' = y
        ELSE IF vector_product_error(kernel, call.ed_flag = 1)
        THEN /\ y' = y
             /\ call' = [c EXCEPT !.status = "fatal",
                                  !.invoked = [kernel |-> kernel, b_id |-> call.b_id,
                                               sym_flag |-> call.sym_flag,
                                               exclude_diag |-> call.ed_flag = 1]]
        ELSE LET y1 == vector_product(kernel, call.ed_flag = 1, ms, m, da, xa, x, y)
                 c1 == [c EXCEPT !.invoked = [kernel |-> kernel, b_id |-> call.b_id,
                                              sym_flag |-> call.sym_flag,
                                              exclude_diag |-> call.ed_flag = 1],
                                 !.run_id = IF @ < MaxRuns THEN @ + 1 ELSE @]
             IN /\ y' = y1
                /\ IF call.run = "_matrix_tune_test"
                   THEN \/ call' = c1
                        \/ call' = [c1 EXCEPT
                                      !.pc = "release", !.run_id = 0,
                                      !.measured = @ \cup
                                         {<<call.v_id + 1,
                                            call.b_id*4 + call.sym_flag*2 + call.ed_flag>>}]
                   ELSE call' = [c1 EXCEPT
                                   !.pc = "release", !.run_id = 0,
                                   !.yr0 = IF call.v_id = 0
                                           THEN [k \in DOMAIN @ |->
                                                   IF k < mesh.n_cells*block_mult
                                                   THEN y1[k] ELSE @[k]]
                                           ELSE @,
                                   !.dmax = IF call.v_id = 0 THEN 0
                                            ELSE matrix_check_compare(
                                                   0, mesh.n_cells*block_mult,
                                                   y1, call.yr0, 0)]
  /\ UNCHANGED <<mesh, cs_glob_n_threads, other, ms, m, da, xa, x, bound>>

\* cs_matrix_release_coefficients at the end of the loop body; the checker
\* run then destroys the matrix and the structure
RunRelease ==
  /\ Alive
  /\ RunAt("release")
  /\ LET c == [call EXCEPT !.invoked = NoKernel, !.coeffs = NoCoeffs]
     IN IF call.run = "_matrix_tune_test"
        THEN /\ m' = cs_matrix_release_coefficients(m)
             /\ ms' = ms
             /\ call' = tune_next(c)
        ELSE /\ m' = cs_matrix_destroy(cs_matrix_release_coefficients(m), ms).matrix
             /\ ms' = NoStruct
             /\ call' = [c EXCEPT !.live_m = @ - 1, !.live_ms = @ - 1,
                                  !.v_id = @ + 1, !.pc = "variant"]
  /\ UNCHANGED <<mesh, cs_glob_n_threads, other, da, xa, x, y, bound>>

\* after the loops: the tuning run destroys the matrix and the structure it
\* holds; the working arrays are freed and the run returns
RunEnd ==
  /\ Alive
  /\ RunAt("end")
  /\ m' = IF call.run = "_matrix_tune_test" /\ m # NoMatrix
          THEN cs_matrix_destroy(m, ms).matrix ELSE m
  /\ ms' = IF call.run = "_matrix_tune_test" /\ ms # NoStruct THEN NoStruct ELSE ms
  /\ call' = [call EXCEPT
                !.invoked = NoKernel, !.pc = "returned",
                !.live_m = IF call.run = "_matrix_tune_test" /\ m # NoMatrix
                           THEN @ - 1 ELSE @,
                !.live_ms = IF call.run = "_matrix_tune_test" /\ ms # NoStruct
                            THEN @ - 1 ELSE @]
  /\ UNCHANGED <<mesh, cs_glob_n_threads, other, da, xa, x, y, bound>>

InitRun == InitWith(RunMeshes) /\ cs_glob_n_threads = 1

NextRun ==
  \/ RunStart
  \/ RunVariant
  \/ RunCreate
  \/ RunAssign
  \/ RunProduct
  \/ RunRelease
  \/ RunEnd

SpecRun == InitRun /\ [][NextRun]_vars


\* C1: every kernel variant of the list, run in a mode it is registered for
\* after cs_matrix_set_coefficients, gives on every owned row the dense
\* reference value, agrees with the first-listed native variant, and gives
\* [2,-1,0,-1] on the ring with diagonal 2, off-diagonals -1 and x = [1,0,0,0].
C1_VariantsMatchDenseReference ==
  (call.op = "_matrix_check" /\ call.kernel # NullPtr /\ ~HasRepeatedPair(mesh)) =>
     /\ call.status = "ok"
     /\ OwnedRowsEqual(y, DenseRef(mesh, da, xa, call.sym_flag = 1,
                                   IF call.b_id = 0 THEN ScalarBlock ELSE diag_block_size,
                                   call.ed_flag = 1, x))
     /\ call.v_id # 0 => call.dmax = 0
     /\ (/\ mesh = Ring
         /\ call.b_id = 0
         /\ call.ed_flag = 0
         /\ da = DaValues("ring", Size(da))
         /\ x = XValues("unit", Size(x)))
        => /\ y[0] = 2
           /\ y[1] = -1
           /\ y[2] = 0
           /\ y[3] = -1

\* the symmetric CSR variant has run on the ring and given [2,-1,0,-1]
C1_Witness ==
  /\ call.op = "_matrix_check"
  /\ call.kernel = "_mat_vec_p_l_csr_sym"
  /\ mesh = Ring
  /\ call.ed_flag = 0
  /\ <<y[0], y[1], y[2], y[3]>> = <<2, -1, 0, -1>>

(* ------------------- properties of products and assignments ----------- *)

\* the structure holds the diagonal of the matrix it is given
HoldsDiagonal(s) ==
  s.type \in {CS_MATRIX_NATIVE, CS_MATRIX_MSR, CS_MATRIX_MSR_SYM} \/ s.structure.have_diag

IsProduct == call.op \in {"cs_matrix_vector_multiply", "cs_matrix_exdiag_vector_multiply"}

\* the last assignment passed both arrays, and they still hold what they held
BoundToArrays ==
  /\ bound.n > 0
  /\ ~bound.released
  /\ bound.da_arg # NullPtr
  /\ bound.xa_arg # NullPtr
  /\ da = bound.da
  /\ xa = bound.xa

OwnedRows == 0..(mesh.n_cells * m.b_size[1] - 1)

\* C2: for a matrix from cs_matrix_create bound to scalar coefficients, the
\* result of cs_matrix_exdiag_vector_multiply plus d[i]*x[i] is the result of
\* cs_matrix_vector_multiply on every owned row, and the exclude-diagonal call
\* ends without a fatal error, for every structure type.
C2_ExdiagPlusDiagonalIsFull ==
  (call.op = "cs_matrix_exdiag_vector_multiply" /\ HoldsDiagonal(ms) /\ BoundToArrays) =>
     /\ call.status = "ok"
     /\ \A i \in OwnedRows :
          y[i] + da[i] * x[i]
            = cs_matrix_vector_multiply(ms, m, da, xa, x, JunkVector(Size(x)))[i]

\* the array of the values of the stored slots of a compressed matrix
SlotValues(mm) ==
  IF mm.type \in {CS_MATRIX_CSR, CS_MATRIX_CSR_SYM} THEN mm.coeffs.val ELSE mm.coeffs.x_val

\* the value the faces give to the coefficient of row ii and column jj
PairValue(symmetric, xa_, ii, jj) ==
  RefFaces(0, mesh, symmetric, xa_, 1, ii, 0,
           [k \in 0..(mesh.n_cells_ext - 1) |-> IF k = jj THEN 1 ELSE 0])

\* C4: with a pair of cells joined by more than one face, every compressed
\* structure has direct_assembly = false and one slot per (row, column) pair,
\* and after cs_matrix_set_coefficients each slot holds the sum of the values
\* of the faces of its pair.
C4_RepeatedPairAccumulated ==
  (ms # NoStruct /\ IsCompressed(ms) /\ HasRepeatedPair(mesh)) =>
     /\ ~ms.structure.direct_assembly
     /\ \A ii \in 0..(ms.structure.n_rows - 1) :
          \A k, l \in ms.structure.row_index[ii]..(ms.structure.row_index[ii+1] - 1) :
             k # l => ms.structure.col_id[k] # ms.structure.col_id[l]
     /\ (m # NoMatrix /\ BoundToArrays /\ bound.op = "cs_matrix_set_coefficients") =>
          \A ii \in 0..(ms.structure.n_rows - 1) :
             \A k \in ms.structure.row_index[ii]..(ms.structure.row_index[ii+1] - 1) :
                ms.structure.col_id[k] # ii =>
                   SlotValues(m)[k] = PairValue(bound.symmetric, xa, ii, ms.structure.col_id[k])

\* the result of the product last called, had it been called on a matrix
\* created on the structure s and bound by cs_matrix_set_coefficients to the
\* arrays da and xa_ (NullArray when that call ends in a fatal error)
ResultOn(s, symmetric, xa_) ==
  LET mm == cs_matrix_set_coefficients(cs_matrix_create(s, cs_glob_n_threads), s,
                                       symmetric, NullArray, "caller", "caller",
                                       da, xa_, 0, FALSE, FALSE)
      exdiag == call.op = "cs_matrix_exdiag_vector_multiply"
  IN IF multiply_error(mm, exdiag) THEN NullArray
     ELSE IF exdiag
          THEN cs_matrix_exdiag_vector_multiply(s, mm, da, xa_, x, JunkVector(Size(x)))
          ELSE cs_matrix_vector_multiply(s, mm, da, xa_, x, JunkVector(Size(x)))

\* the structure of the given type for the face list, with its diagonal
StructureOf(type) ==
  cs_matrix_structure_create(type, TRUE, mesh.n_cells, mesh.n_cells_ext,
                             mesh.n_faces, mesh.face_cell)

\* C7: for symmetric coefficients, the product on a symmetric CSR or
\* symmetric MSR matrix gives on every owned row the same y as the product on
\* a native, CSR or MSR matrix of the same face list and coefficients, with
\* the diagonal included and with it excluded (wherever that product ends
\* without a fatal error).
C7_SymmetricTypesMatchGeneral ==
  (/\ IsProduct
   /\ call.status = "ok"
   /\ ms.type \in SymTypes
   /\ HoldsDiagonal(ms)
   /\ BoundToArrays
   /\ bound.op = "cs_matrix_set_coefficients") =>
     \A type \in {CS_MATRIX_NATIVE, CS_MATRIX_CSR, CS_MATRIX_MSR} :
        LET z == ResultOn(StructureOf(type), TRUE, xa)
        IN z # NullArray => \A i \in OwnedRows : y[i] = z[i]

\* the interleaved layout of the split array xa_
Interleaved(xa_) ==
  [k \in DOMAIN xa_ |-> IF k % 2 = 0 THEN xa_[k \div 2]
                        ELSE xa_[mesh.n_faces + (k \div 2)]]

\* C8: for non-symmetric scalar coefficients, a native, CSR or MSR matrix
\* bound by cs_matrix_set_coefficients_ni to the split layout gives the same
\* products as one bound by cs_matrix_set_coefficients to the interleaved
\* layout of the same values.
C8_SplitLayoutMatchesInterleaved ==
  (/\ IsProduct
   /\ call.status = "ok"
   /\ ms.type \in {CS_MATRIX_NATIVE, CS_MATRIX_CSR, CS_MATRIX_MSR}
   /\ BoundToArrays
   /\ bound.n = 1
   /\ bound.op = "cs_matrix_set_coefficients_ni"
   /\ ~bound.symmetric) =>
     \A i \in OwnedRows :
        y[i] = ResultOn(ms, FALSE, Interleaved(xa))[i]

\* a CSR matrix bound to a split array of two faces has been multiplied
C8_Witness ==
  /\ IsProduct
  /\ call.status = "ok"
  /\ ms.type = CS_MATRIX_CSR
  /\ mesh.n_faces = 2
  /\ bound.op = "cs_matrix_set_coefficients_ni"
  /\ ~bound.symmetric
  /\ xa[0] # xa[mesh.n_faces]
  /\ \E i \in OwnedRows : y[i] # 0

\* C3: in block mode on a native or MSR matrix, an exclude-diagonal product
\* that returns gives y = (A - D).x on every owned row: the diagonal blocks
\* contribute nothing.
C3_BlockExdiagExcludesDiagonal ==
  (/\ call.op = "cs_matrix_exdiag_vector_multiply"
   /\ call.status = "ok"
   /\ ms.type \in {CS_MATRIX_NATIVE, CS_MATRIX_MSR}
   /\ BoundToArrays
   /\ bound.block # NullArray) =>
     OwnedRowsEqual(y, DenseRef(mesh, da, xa, bound.symmetric, m.b_size, TRUE, x))

\* the caller's array, or zeros where the assignment passed NULL
PassedOrZero(arg, a) == IF arg = NullPtr THEN Arr(Size(a), 0) ELSE a

\* C9: after an assignment with xa = NULL the product is d[i]*x[i] on every
\* owned row, and after one with da = NULL the diagonal contributes nothing,
\* whatever was bound to the matrix before, for every structure type.
C9_NullArrayGivesZeroCoefficients ==
  (/\ call.op = "cs_matrix_vector_multiply"
   /\ call.status = "ok"
   /\ HoldsDiagonal(ms)
   /\ ~bound.released
   /\ da = bound.da
   /\ xa = bound.xa) =>
     OwnedRowsEqual(y, DenseRef(mesh, PassedOrZero(bound.da_arg, da),
                                PassedOrZero(bound.xa_arg, xa), bound.symmetric,
                                m.b_size, FALSE, x))

\* the result of the operation last called, had the caller's arrays held
\* cda and cxa when it was called
ResultWith(cda, cxa) ==
  CASE call.op = "cs_matrix_vector_multiply" ->
         {cs_matrix_vector_multiply(ms, m, cda, cxa, x, JunkVector(Size(x)))}
    [] call.op = "cs_matrix_exdiag_vector_multiply" ->
         {cs_matrix_exdiag_vector_multiply(ms, m, cda, cxa, x, JunkVector(Size(x)))}
    [] call.op = "cs_matrix_get_diagonal" ->
         {cs_matrix_get_diagonal(m, ms, cda, u) : u \in UninitVals}

\* C10: after cs_matrix_copy_coefficients the results of the products and of
\* cs_matrix_get_diagonal do not depend on what the caller's arrays hold, for
\* every structure type; after cs_matrix_set_coefficients with both arrays a
\* native matrix points to the caller's arrays.
C10_CopyIndependentOfCallerArrays ==
  /\ (/\ call.op \in {"cs_matrix_vector_multiply", "cs_matrix_exdiag_vector_multiply",
                      "cs_matrix_get_diagonal"}
      /\ call.status = "ok"
      /\ ~bound.released
      /\ bound.op = "cs_matrix_copy_coefficients") =>
        \A cda \in {da, OverwrittenDa}, cxa \in {xa, OverwrittenXa} :
           y \in ResultWith(cda, cxa)
  /\ (/\ m # NoMatrix
      /\ m.type = CS_MATRIX_NATIVE
      /\ bound.n > 0
      /\ ~bound.released
      /\ bound.op = "cs_matrix_set_coefficients"
      /\ bound.da_arg # NullPtr
      /\ bound.xa_arg # NullPtr) =>
        m.coeffs.da = "caller" /\ m.coeffs.xa = "caller"

(* ----------------------- release of coefficients ----------------------- *)

\* what a step of cs_matrix_release_coefficients leaves of the coefficients:
\* no reference to an array of the caller, the arrays the matrix owns with
\* their contents, and the references to them
ReleaseKeepsOwned ==
  LET c == m.coeffs
      d == m'.coeffs
  IN CASE m.type = CS_MATRIX_NATIVE ->
            /\ d.own_da = c.own_da
            /\ d.own_xa = c.own_xa
            /\ d.da # "caller"
            /\ d.xa # "caller"
            /\ c.da = "private" => d.da = "private"
            /\ c.xa = "private" => d.xa = "private"
       [] m.type \in {CS_MATRIX_CSR, CS_MATRIX_CSR_SYM} ->
            d.val = c.val
       [] m.type \in {CS_MATRIX_MSR, CS_MATRIX_MSR_SYM} ->
            /\ d.x_val = c.x_val
            /\ d.own_d_val = c.own_d_val
            /\ d.d_val # "caller"
            /\ c.d_val = "private" => d.d_val = "private"

\* C11: cs_matrix_release_coefficients sets the references to the caller's
\* arrays to NULL and leaves the copies owned by the matrix as they are: they
\* keep their contents and remain the coefficients of the matrix.
C11_ReleaseKeepsOwnedCoefficients == [][ReleaseCoefficients => ReleaseKeepsOwned]_vars

\* the results the product last called can give on a matrix just created on
\* ms and bound as the last assignment bound m
FreshResults ==
  {LET mm == cs_matrix_set_coefficients(cs_matrix_create(ms, cs_glob_n_threads), ms,
                                        bound.symmetric, bound.block, bound.da_arg,
                                        bound.xa_arg, da, xa, u, FALSE, rev)
   IN IF call.op = "cs_matrix_exdiag_vector_multiply"
      THEN cs_matrix_exdiag_vector_multiply(ms, mm, da, xa, x, JunkVector(Size(x)))
      ELSE cs_matrix_vector_multiply(ms, mm, da, xa, x, JunkVector(Size(x))) :
   u \in UninitVals, rev \in BOOLEAN}

\* a released matrix, bound again by cs_matrix_set_coefficients, multiplied
ReboundAfterRelease ==
  /\ IsProduct
  /\ call.status = "ok"
  /\ bound.after_release
  /\ ~bound.released
  /\ bound.op = "cs_matrix_set_coefficients"
  /\ da = bound.da
  /\ xa = bound.xa

\* C12: a second cs_matrix_release_coefficients in a row leaves the matrix as
\* the first left it, and a released matrix bound again by
\* cs_matrix_set_coefficients gives the products of a matrix just created and
\* bound to the same coefficients, for every structure type.
C12_ReleaseTwiceThenRebind ==
  /\ [][(ReleaseCoefficients /\ bound.released) => m' = m]_vars
  /\ [](ReboundAfterRelease => y \in FreshResults)

\* a native matrix bound to both arrays, released, bound again to the
\* diagonal only and multiplied
C12_Witness ==
  /\ ReboundAfterRelease
  /\ m.type = CS_MATRIX_NATIVE
  /\ mesh.n_faces = 1
  /\ bound.xa_arg = NullPtr
  /\ bound.da_arg # NullPtr
  /\ \E i \in OwnedRows : y[i] # 0

(* ------------------------ the shared structure ------------------------- *)

\* the other matrix has been multiplied after the destruction of m, on the
\* arrays it was bound to
OtherOutlivesMatrix ==
  /\ call.op = "cs_matrix_vector_multiply"
  /\ call.status = "ok"
  /\ "on" \in DOMAIN call
  /\ m = NoMatrix
  /\ da = other.da
  /\ xa = other.xa

\* C13: no operation on a matrix changes or frees the structure it was
\* created on, whichever of the matrices sharing it the operation is on, and
\* after cs_matrix_destroy of one matrix the products of the other are those
\* of the structure.
C13_StructureUnchangedByMatrixOperations ==
  /\ [][(ms # NoStruct /\ ~StructureDestroy) => ms' = ms]_vars
  /\ [](OtherOutlivesMatrix =>
          OwnedRowsEqual(y, DenseRef(mesh, IF HoldsDiagonal(ms) THEN da
                                           ELSE Arr(Size(da), 0),
                                     xa, other.symmetric, ScalarBlock, FALSE, x)))

\* a CSR matrix has been multiplied after the other matrix of its structure
\* was bound, multiplied and destroyed
C13_Witness ==
  /\ OtherOutlivesMatrix
  /\ ms.type = CS_MATRIX_CSR
  /\ mesh.n_faces = 1
  /\ \E i \in DOMAIN y : y[i] # 0

(* ------------------------------ diagonal ------------------------------- *)

\* C14: after scalar coefficients are bound by set or copy,
\* cs_matrix_get_diagonal writes da[i] for every owned row i, or 0 for every
\* row when the diagonal was bound as NULL, for every structure type.
C14_GetDiagonalReturnsBoundDiagonal ==
  (/\ call.op = "cs_matrix_get_diagonal"
   /\ call.status = "ok"
   /\ HoldsDiagonal(ms)
   /\ ~bound.released
   /\ bound.op \in {"cs_matrix_set_coefficients", "cs_matrix_copy_coefficients"}
   /\ da = bound.da) =>
     \A i \in OwnedRows : y[i] = IF bound.da_arg = NullPtr THEN 0 ELSE da[i]

(* -------------------------- public entry points ------------------------ *)

\* the product entry point of the last call has gone through
\* _pre_vector_multiply_sync or the dispatch on matrix->vector_multiply
IsEntryProduct == "kernel" \in DOMAIN call

\* C15: a synchronizing product called with CS_PERIO_ROTA_IGNORE raises the
\* fatal error of the halo synchronization only if the halo of the matrix
\* holds a rotation: never without periodicity or with translations only, in
\* scalar and in block mode.
C15_IgnoreModeFatalOnlyWithRotation ==
  (/\ IsEntryProduct
   /\ call.op \in SyncEntries
   /\ call.rotation_mode = CS_PERIO_ROTA_IGNORE
   /\ call.error = "perio_ignore") =>
     /\ mesh.halo # NoHalo
     /\ \E k \in DOMAIN mesh.halo.periodicity : mesh.halo.periodicity[k] = "rotation"

\* C17: every public operation that takes a matrix ends in the fatal error
\* when it is called with matrix = NULL.
C17_NullMatrixIsFatal ==
  ("matrix" \in DOMAIN call /\ call.matrix = NullPtr) => call.status = "fatal"

\* slot of matrix->vector_multiply of the mode requested by the last call:
\* 0 and 1 for the full and the extra-diagonal scalar product, 2 and 3 for
\* the block ones
RequestedSlot ==
  LET exdiag == call.op = "cs_matrix_exdiag_vector_multiply"
  IN IF m.b_size[3] = 1 THEN (IF exdiag THEN 1 ELSE 0) ELSE (IF exdiag THEN 3 ELSE 2)

\* C18: a product entry point that has passed the halo synchronization calls
\* the kernel held by the slot of the requested mode, or ends in a fatal error
\* without calling any kernel when that slot is NULL, as it is in block mode
\* for CSR, symmetric CSR and symmetric MSR matrices; a NULL function pointer
\* is never called.
C18_DispatchCallsSlotOrFails ==
  (IsEntryProduct /\ call.error # "perio_ignore") =>
     LET slot == m.vector_multiply[RequestedSlot]
     IN /\ slot # NullPtr => call.kernel = slot
        /\ slot = NullPtr => call.status = "fatal" /\ call.kernel = NullPtr
        /\ call.kernel = NullPtr => call.status = "fatal"
        /\ (m.b_size[3] > 1
            /\ m.type \in {CS_MATRIX_CSR, CS_MATRIX_CSR_SYM, CS_MATRIX_MSR_SYM}) =>
              slot = NullPtr

C18_Witness ==
  /\ IsEntryProduct
  /\ call.op = "cs_matrix_vector_multiply_nosync"
  /\ call.error = "missing"
  /\ m.type = CS_MATRIX_MSR_SYM
  /\ m.b_size[3] > 1

\* C16: binding coefficients with symmetric = false to a symmetric CSR or
\* symmetric MSR matrix always ends in the fatal error and never in a bound
\* matrix, whatever da and xa.
C16_NonSymmetricOnSymTypeIsFatal ==
  (m # NoMatrix /\ m.type \in SymTypes /\ bound.n > 0) => bound.symmetric

\* C16 (amended): binding coefficients with symmetric = false and an
\* extra-diagonal array xa to a symmetric CSR or symmetric MSR matrix that has
\* faces always ends in the fatal error and never in a bound matrix, whatever
\* the values of da and xa; with xa = NULL the call binds a diagonal matrix.
C16_NonSymmetricXaOnSymTypeIsFatal ==
  (/\ m # NoMatrix
   /\ m.type \in SymTypes
   /\ bound.n > 0
   /\ bound.xa_arg # NullPtr
   /\ mesh.n_faces > 0) => bound.symmetric

C16_Witness ==
  /\ call.status = "fatal"
  /\ call.op = "cs_matrix_copy_coefficients"
  /\ m # NoMatrix
  /\ m.type = CS_MATRIX_MSR_SYM
  /\ mesh.n_faces > 0
  /\ bound.n = 1

(* -------------------------------- tuning ------------------------------- *)

IsTuned == call.op = "cs_matrix_variant_tuned"

\* the variants of the type selected that have a measured cost in a category
MeasuredIn(sub_id) ==
  {v_id \in 1..Len(call.m_variant) :
     /\ call.m_variant[v_id].type = call.r.type
     /\ RLess(RZero, call.m_variant[v_id].matrix_vector_cost[sub_id])}

\* a variant of lowest measured cost in a category
IsBestIn(v_id, sub_id) ==
  /\ v_id \in MeasuredIn(sub_id)
  /\ \A w \in MeasuredIn(sub_id) :
       ~RLess(call.m_variant[w].matrix_vector_cost[sub_id],
              call.m_variant[v_id].matrix_vector_cost[sub_id])

\* C19: in the variant returned by cs_matrix_variant_tuned, for each of the 8
\* categories in which a variant of the selected type has a measured cost, the
\* recorded cost is the lowest measured cost of the category and the kernel
\* returned for the category is the kernel of a variant that achieved it.
C19_CategoryWinnerIsFastest ==
  IsTuned =>
    \A sub_id \in 0..7 :
       MeasuredIn(sub_id) # {} =>
         \E v_id \in 1..Len(call.m_variant) :
            /\ IsBestIn(v_id, sub_id)
            /\ call.r.matrix_vector_cost[sub_id]
                 = call.m_variant[v_id].matrix_vector_cost[sub_id]
            /\ call.r.vector_multiply[(sub_id \div 4) * 2 + (sub_id % 2)]
                 = call.m_variant[v_id].vector_multiply[(sub_id \div 4) * 2 + (sub_id % 2)]

\* the categories the weights ask for (products with the diagonal)
RequiredCategories ==
  {sub_id \in {0, 2, 4, 6} :
     /\ IF sub_id \div 4 = 0 THEN RLess(call.block_weight, ROne)
        ELSE RLess(RZero, call.block_weight)
     /\ IF (sub_id \div 2) % 2 = 0 THEN RLess(call.sym_weight, ROne)
        ELSE RLess(RZero, call.sym_weight)}

\* a type has a measured cost in every category the weights ask for
Qualified(type) ==
  \A sub_id \in RequiredCategories :
     \E v_id \in 1..Len(call.m_variant) :
        /\ call.m_variant[v_id].type = type
        /\ ~RLess(call.m_variant[v_id].matrix_vector_cost[sub_id], RZero)

\* weighted score of a type: the weighted sum of its best speedups
Score(type) ==
  LET sp == call.r.t_speedup[type_id(type)]
      nb == RAdd(ROne, RMul(Rat(-1, 1), call.block_weight))
      ns == RAdd(ROne, RMul(Rat(-1, 1), call.sym_weight))
  IN RAdd(RAdd(RMul(RMul(nb, ns), sp[0]), RMul(RMul(nb, call.sym_weight), sp[2])),
          RAdd(RMul(RMul(call.block_weight, ns), sp[4]),
               RMul(RMul(call.block_weight, call.sym_weight), sp[6])))

\* C20: cs_matrix_variant_tuned never selects a type that lacks a measured
\* cost in a category required by the weights, and among the types that are
\* not disqualified it selects one of maximal weighted score.
C20_SelectedTypeQualifiedAndBest ==
  IsTuned =>
    /\ Qualified(call.r.type)
    /\ \A t_id \in TypeIds :
         Qualified(TypeOrder[t_id + 1]) =>
           ~RLess(Score(call.r.type), Score(TypeOrder[t_id + 1]))

(* --------------------------- timing loops ------------------------------ *)

\* n_runs changes only by doubling, at a reading of the timer that finds the
\* elapsed time below the threshold
TimerDoublesBelow(threshold) ==
  (TimerRunning /\ call'.op = "timer" /\ call'.n_runs # call.n_runs)
    => /\ call'.n_runs = 2 * call.n_runs
       /\ call.run_id = call.n_runs
       /\ call.now - call.wt0 < threshold

\* C21 as stated: every timing loop (creation, assignment, product) started
\* with its fixed count terminates when each timed call advances the timer;
\* the count is doubled only while the elapsed time is below t_measure; the
\* loop is left only with an elapsed time of at least t_measure, after exactly
\* n_runs calls, and the cost recorded is the elapsed time divided by n_runs.
C21_TimingLoopsMeasureToThreshold ==
  /\ [](TimerRunning => <>TimerDone)
  /\ [][TimerDoublesBelow(call.t_measure)]_vars
  /\ [](TimerDone =>
          /\ call.wt1 - call.wt0 >= call.t_measure
          /\ call.run_id = call.n_runs
          /\ call.cost = Rat(call.wt1 - call.wt0, call.n_runs))

\* C21, amended: as above, with the threshold of an assignment loop for a
\* type whose assignment was already timed being -1 (the loop makes exactly one
\* call), and with nothing recorded by an assignment loop left with a count
\* of 1.
C21_TimingLoopsMeasureToOwnThreshold ==
  /\ [](TimerRunning => <>TimerDone)
  /\ [][TimerDoublesBelow(call.threshold)]_vars
  /\ [](TimerDone =>
          /\ call.wt1 - call.wt0 >= call.threshold
          /\ call.run_id = call.n_runs
          /\ (call.loop = "assign" /\ ~call.test_assign) => call.n_runs = 1
          /\ IF call.loop = "assign" /\ call.n_runs = 1
             THEN call.cost = Unmeasured
             ELSE call.cost = Rat(call.wt1 - call.wt0, call.n_runs))

\* an assignment loop left after two doublings
C21_Witness ==
  /\ TimerDone
  /\ call.loop = "assign"
  /\ call.n_runs = 32
  /\ call.wt1 - call.wt0 >= MaxMeasure

(* ------------------------ creation with a variant ---------------------- *)

\* C22: a matrix created by cs_matrix_create_tuned with a variant of another
\* type than the structure's has the kernel table and the loop length of
\* cs_matrix_create on that structure; with a variant of the structure's
\* type, each slot holds the kernel of the variant if the variant has one and
\* the default kernel of cs_matrix_create otherwise.
C22_TunedCreateReplacesVariantSlots ==
  call.op = "cs_matrix_create_tuned" =>
    LET default == cs_matrix_create(ms, cs_glob_n_threads)
        mv == call.mv
    IN IF mv.type # ms.type
       THEN /\ m.vector_multiply = default.vector_multiply
            /\ m.loop_length = default.loop_length
       ELSE \A i \in 0..3 :
              m.vector_multiply[i] =
                IF mv.vector_multiply[i] # NullPtr
                THEN mv.vector_multiply[i] ELSE default.vector_multiply[i]

\* a variant of the structure's type that replaces a default kernel by
\* another one and leaves a default kernel in place
C22_Witness ==
  /\ call.op = "cs_matrix_create_tuned"
  /\ call.mv.type = ms.type
  /\ LET default == cs_matrix_create(ms, cs_glob_n_threads)
     IN /\ \E i \in 0..3 : /\ call.mv.vector_multiply[i] # NullPtr
                           /\ call.mv.vector_multiply[i] # default.vector_multiply[i]
                           /\ m.vector_multiply[i] = call.mv.vector_multiply[i]
        /\ \E i \in 0..3 : /\ call.mv.vector_multiply[i] = NullPtr
                           /\ default.vector_multiply[i] # NullPtr
                           /\ m.vector_multiply[i] = default.vector_multiply[i]

(* ----------------------- ghost rows of the result ---------------------- *)

\* the ghost entries of a vector of the matrix m
GhostEntries == (mesh.n_cells * m.b_size[1])..(mesh.n_cells_ext * m.b_size[1] - 1)

\* C23: after a product by any kernel, through any of the three entry
\* points, on a matrix with or without halo, the ghost entries of y do not
\* depend on what y held before the call: they are what the kernel gives
\* from a y whose ghost entries are zero (zero, or the sum of the
\* contributions of the faces of the ghost cell).
C23_GhostRowsOfResultNotStale ==
  (IsEntryProduct /\ call.status = "ok") =>
    LET exclude == multiply_exclude_arg(m, call.op = "cs_matrix_exdiag_vector_multiply")
        y_ == JunkVector(mesh.n_cells_ext * m.b_size[1])
        zeroed == [k \in DOMAIN y_ |-> IF k \in GhostEntries THEN 0 ELSE y_[k]]
        ref == vector_product(call.kernel, exclude, ms, m, da, xa, x, zeroed)
    IN \A k \in GhostEntries : y[k] = ref[k]

(* ---------------------------- prefetch kernels ------------------------- *)

\* C24: for every chunk length from 1 on (below, equal to and above the
\* number of rows), every mesh, symmetric or not, with or without diagonal
\* passed, the prefetch kernels of the CSR and MSR types give on every owned
\* row the value the kernels without prefetch give on the same matrix and x,
\* in each mode they are registered for.
C24_PrefetchMatchesPlainKernel ==
  call.op = "prefetch product" =>
    LET ref == vector_product(plain_kernel(m.type), call.exclude_diag, ms, m, da, xa, x,
                              JunkVector(mesh.n_cells_ext))
    IN /\ m.coeffs.n_prefetch_rows >= 1
       /\ \A ii \in 0..(mesh.n_cells - 1) : y[ii] = ref[ii]

\* the MSR prefetch kernel on 3 rows in chunks of 2, without diagonal passed
C24_Witness ==
  /\ call.op = "prefetch product"
  /\ call.kernel = "_mat_vec_p_l_msr_pf"
  /\ call.da_arg = NullPtr
  /\ ~call.exclude_diag
  /\ mesh.n_cells = 3
  /\ mesh.n_faces = 3
  /\ m.coeffs.n_prefetch_rows = 2
  /\ \A ii \in 0..2 : y[ii] # 0

(* ------------------------ degenerate block kernels --------------------- *)

\* C25: with the block extents {1, 1, 1, 1}, the block kernels of the native
\* and MSR types give, on every mesh, with symmetric or non-symmetric
\* coefficients, da and xa passed or NULL, with and without the diagonal, the
\* same y as the kernels without blocks on the same matrix and x.
C25_DegenerateBlockMatchesScalar ==
  call.op = "block product" =>
    /\ m.b_size = Arr(4, 1)
    /\ y = vector_product(scalar_kernel(m.type), call.exclude_diag, ms, m, da, xa, x,
                          JunkVector(mesh.n_cells_ext))

\* the native block kernel with the diagonal on 3 cells and 3 faces
C25_Witness ==
  /\ call.op = "block product"
  /\ call.kernel = "_b_mat_vec_p_l_native"
  /\ ~call.exclude_diag
  /\ call.da_arg = "caller"
  /\ mesh.n_cells = 3
  /\ mesh.n_faces = 3
  /\ \A ii \in 0..2 : y[ii] # 0

(* ------------------------ threaded native kernel ----------------------- *)

\* threads that have not finished their range of the current group
OmpActive == {t_id \in DOMAIN call.threads :
                call.threads[t_id].face_id < call.threads[t_id].end}

\* C26: with a numbering in which, inside a group, the ranges of two threads
\* share no cell, whatever the order of the reads and writes of the threads,
\* the threaded native kernel returns the y of the sequential kernel; the
\* threads are all in the same group, the diagonal part is complete before
\* the first update by a thread, and two threads at work never update the
\* same entry of y.
C26_ThreadedNativeMatchesSequential ==
  call.op = "_mat_vec_p_l_native_omp" =>
    /\ call.phase = "done" =>
         y = mat_vec_p_l_native(call.exclude_diag, ms, m, da, xa, x,
                                JunkVector(mesh.n_cells_ext))
    /\ call.phase = "diagonal" =>
         /\ y = JunkVector(mesh.n_cells_ext)
         /\ \A t_id \in DOMAIN call.threads : call.threads[t_id].pc = "ii_load"
    /\ call.phase = "faces" =>
         /\ \A t_id \in DOMAIN call.threads :
              LET r == omp_range(call.numbering, t_id, call.g_id)
                  th == call.threads[t_id]
              IN th.end = r.end /\ th.face_id >= r.start /\ th.face_id <= r.end
         /\ \A t, w \in OmpActive :
              t # w => {face_ii(ms.face_cell, call.threads[t].face_id),
                        face_jj(ms.face_cell, call.threads[t].face_id)}
                         \cap {face_ii(ms.face_cell, call.threads[w].face_id),
                               face_jj(ms.face_cell, call.threads[w].face_id)} = {}

\* the kernel has returned after two groups in which both threads had faces
C26_Witness ==
  /\ call.op = "_mat_vec_p_l_native_omp"
  /\ call.phase = "done"
  /\ call.numbering.n_groups = 2
  /\ \A g_id \in 0..1 : \A t_id \in 0..(OmpThreads - 1) :
       omp_range(call.numbering, t_id, g_id).start
         < omp_range(call.numbering, t_id, g_id).end
  /\ \A ii \in 0..(mesh.n_cells - 1) : y[ii] # 0

(* -------------------- steps of the tuning and checker runs ------------- *)

\* kernels registered for products including the diagonal only
IncludeDiagOnly == {"_mat_vec_p_l_csr_pf"}

\* products of the list whose slot holds a kernel, in the symmetry modes of
\* the variant
RunProducts ==
  {p \in (1..Len(call.m_variant)) \X (0..7) :
     LET v == call.m_variant[p[1]]
         sym_flag == (p[2] \div 2) % 2
     IN /\ sym_flag >= sym_start(v)
        /\ sym_flag < sym_end(v)
        /\ v.vector_multiply[(p[2] \div 4)*2 + (p[2] % 2)] # NullPtr}

\* C27: in a tuning run and in a checker run, a kernel is invoked only on a
\* matrix whose coefficients were set for the block and symmetry mode at
\* hand and not released since; the kernel is the one registered in the slot
\* of the (block, diagonal exclusion) mode, a kernel registered without
\* diagonal exclusion is never invoked with exclude_diag, a cost is stored
\* only for a slot that holds a kernel and, when the run returns, for each
\* of them, and every matrix and structure created has been destroyed.
C27_RunsInvokeRegisteredKernelsOnSetMatrices ==
  call.op = "run" =>
    /\ call.invoked.kernel # NullPtr =>
         /\ call.coeffs = [set |-> TRUE, b_id |-> call.invoked.b_id,
                           sym_flag |-> call.invoked.sym_flag]
         /\ m # NoMatrix
         /\ m.type = RunVariantOf.type
         /\ m.type = CS_MATRIX_NATIVE => m.coeffs.symmetric = (call.invoked.sym_flag = 1)
         /\ (m.b_size = ScalarBlock) = (call.invoked.b_id = 0)
         /\ call.invoked.kernel
              = RunVariantOf.vector_multiply[call.invoked.b_id*2
                                             + (IF call.invoked.exclude_diag THEN 1 ELSE 0)]
         /\ call.invoked.exclude_diag => call.invoked.kernel \notin IncludeDiagOnly
         /\ call.status = "ok"
    /\ call.run = "_matrix_tune_test" => call.measured \subseteq RunProducts
    /\ call.pc = "returned" =>
         /\ call.live_m = 0
         /\ call.live_ms = 0
         /\ m = NoMatrix
         /\ ms = NoStruct
         /\ call.run = "_matrix_tune_test" => call.measured = RunProducts

\* a tuning run has returned after products with and without a kernel
C27_Witness ==
  /\ call.op = "run"
  /\ call.run = "_matrix_tune_test"
  /\ call.pc = "returned"
  /\ call.measured # {}
  /\ call.measured # (1..Len(call.m_variant)) \X (0..7)
  /\ \E p \in call.measured : p[2] % 2 = 1

(* ------------------ private off-diagonal buffer, native ---------------- *)

\* the call just made has written the private off-diagonal buffer of the
\* native matrix
NativePrivateWrite ==
  /\ m # NoMatrix
  /\ m.type = CS_MATRIX_NATIVE
  /\ call.status = "ok"
  /\ bound.n > 0
  /\ bound.op = call.op
  /\ bound.xa_arg # NullPtr
  /\ \/ call.op = "cs_matrix_copy_coefficients"
     \/ call.op = "cs_matrix_set_coefficients_ni" /\ ~bound.symmetric

\* C28: whatever the sequence of cs_matrix_copy_coefficients and
\* cs_matrix_set_coefficients_ni calls on a native matrix and their symmetry
\* flags, the private off-diagonal buffer is at each write at least as large
\* as the number of values written (n_faces symmetric, 2*n_faces otherwise).
C28_NativePrivateBufferHoldsWrittenValues ==
  NativePrivateWrite =>
    m.coeffs.own_xa_size >= (IF bound.symmetric THEN ms.n_faces ELSE 2 * ms.n_faces)

(* ----------------------- type returned by the tuner -------------------- *)

\* weighted speedup of the type of index t_id in the call just made
TunedScore(t_id) ==
  tuned_type_speedup(call.r.t_speedup[t_id], call.sym_weight, call.block_weight)

\* tables of speedups in which each type has one value in all categories:
\* unmeasured, zero or one
SpeedupTables ==
  {[t_id \in TypeIds |-> [sub_id \in 0..7 |-> ts[t_id]]] :
     ts \in [TypeIds -> {Unmeasured, RZero, ROne}]}

\* C29: cs_matrix_variant_tuned returns a symmetric-only type (symmetric CSR,
\* symmetric MSR) only when sym_weight >= 1: with sym_weight < 1 the type
\* returned accepts non-symmetric coefficients whatever the measured costs;
\* and when no type has a positive score (in the call made, and for the
\* selection loop on any table of speedups) the type returned is the native
\* one, of index 0.
C29_TunedTypeSymmetricOnlyAtFullWeight ==
  call.op = "cs_matrix_variant_tuned" =>
    /\ RLess(call.sym_weight, ROne) => call.r.type \notin SymTypes
    /\ (\A t_id \in TypeIds : ~RLess(RZero, TunedScore(t_id)))
         => call.r.type = CS_MATRIX_NATIVE
    /\ \A tab \in SpeedupTables :
         (\A t_id \in TypeIds :
            ~RLess(RZero, tuned_type_speedup(tab[t_id], call.sym_weight,
                                             call.block_weight)))
           => tuned_type(tab, call.sym_weight, call.block_weight, 0, RZero, 0) = 0

\* a call with sym_weight < 1 that returns a type other than the native one
C29_Witness ==
  /\ call.op = "cs_matrix_variant_tuned"
  /\ RLess(call.sym_weight, ROne)
  /\ RLess(RZero, call.sym_weight)
  /\ call.r.type # CS_MATRIX_NATIVE

(* --------------------- chunk length and prefetch buffer ---------------- *)

PrefetchKernels == {"_mat_vec_p_l_csr_pf", "_mat_vec_p_l_msr_pf"}

\* a product has run a prefetch kernel on the matrix, whose coefficients
\* were set
PrefetchKernelRan ==
  /\ IsEntryProduct
  /\ call.kernel \in PrefetchKernels
  /\ call.error = "none"
  /\ bound.n > 0

\* first rows of the chunks of n_prefetch_rows rows
ChunkStarts ==
  {start_row \in 0..(ms.structure.n_rows - 1) : start_row % m.coeffs.n_prefetch_rows = 0}

\* number of values of x gathered for the chunk that starts at start_row,
\* with one more per row in the MSR kernel (product with diagonal)
ChunkGathered(start_row) ==
  LET end_row == IF start_row + m.coeffs.n_prefetch_rows > ms.structure.n_rows
                 THEN ms.structure.n_rows
                 ELSE start_row + m.coeffs.n_prefetch_rows
  IN Len(pf_gather(ms.structure, x, start_row, end_row,
                   call.kernel = "_mat_vec_p_l_msr_pf", << >>))

\* the values gathered for each chunk fit in the buffer allocated
PrefetchBufferHoldsChunks ==
  (PrefetchKernelRan /\ m.coeffs.n_prefetch_rows >= 1) =>
    \A start_row \in ChunkStarts : ChunkGathered(start_row) <= m.coeffs.x_prefetch

\* C30: whenever a prefetch kernel runs on a matrix whose coefficients were
\* set, the chunk length n_prefetch_rows is at least 1 and the values of x
\* gathered for a chunk (one more per row in the MSR kernel with diagonal)
\* never exceed the allocated size of x_prefetch.
C30_PrefetchChunkPositiveAndBufferLargeEnough ==
  PrefetchKernelRan =>
    /\ m.coeffs.n_prefetch_rows >= 1
    /\ \A start_row \in ChunkStarts : ChunkGathered(start_row) <= m.coeffs.x_prefetch

====
